---------------------------- MODULE Spec2Model ----------------------------
(***************************************************************************)
(* Assembly of observation partials for the mutual-approximation class of  *)
(* observables (Tudat, createMutualApproximationPartials.h).               *)
(*                                                                         *)
(* The module models the three single-link assembly functions              *)
(*   createMutualApproximationPartials                (ObservationPartial<1>)*)
(*   createMutualApproximationWithImpactParameterPartials      (<2>)       *)
(*   createImpactParameterMutualApproxPartials                 (<1>)       *)
(* and the three functions that apply them to a vector of link ends.  One  *)
(* behaviour is one call: the inputs are fixed by the initial state, every *)
(* step is one statement group or one loop iteration of the source.        *)
(***************************************************************************)
EXTENDS Integers, Sequences, FiniteSets, TLC

(***************************************************************************)
(* Bounds of the model.                                                    *)
(***************************************************************************)
\* largest number of initial-state parameters in a parameter set
MaxDyn == 2
\* largest number of light-time correction groups handed to one call
MaxGroups == 3
\* largest number of link ends handed to the batch functions
MaxLinks == 2

(***************************************************************************)
(* Program constants.                                                      *)
(***************************************************************************)
\* size of a body initial state, "currentIndex += 6"
StateSize == 6
\* number of legs of the mutual-approximation observables, "instead of 2"
RequiredLegs == 2

\* nullptr, for shared_ptr to a scaling object (objects are numbered from 1)
Nullptr == 0
\* the one DependentVariablesInterface object of the propagation
TheInterface == 1

\* the argument dependentVariablesInterface: the interface, or the empty
\* shared_ptr of the default argument
InterfaceChoices == {TheInterface, Nullptr}

\* past-the-end iterator of the std::map of parameters
End == -1
\* the value of a call that has not returned (or that threw)
NoValue == [none |-> TRUE]
\* no exception
NoError == <<>>

(***************************************************************************)
(* Link ends: a std::map from link-end type to body.                       *)
(***************************************************************************)
LinkEndTypes == {"transmitter", "transmitter2", "receiver"}

MutualApproximation == "mutual_approximation"
MutualApproximationWithImpactParameter == "mutual_approximation_with_impact_parameter"
ImpactParameterMutualApprox == "impact_parameter_mutual_approx"
ObservableTypes ==
    {MutualApproximation, MutualApproximationWithImpactParameter,
     ImpactParameterMutualApprox}

\* ObservationPartial< N >: the size of the observable
ObservableSize(obs) ==
    IF obs = MutualApproximationWithImpactParameter THEN 2 ELSE 1

\* linkEnds.count( type )
Count(linkEndsMap, key) == IF key \in DOMAIN linkEndsMap THEN 1 ELSE 0

(***************************************************************************)
(* Estimated parameters.  A parameter name is (type, body); an initial     *)
(* state parameter also has a size, a vector parameter a size and, for a   *)
(* link property (an observation bias), the link ends it belongs to.       *)
(***************************************************************************)
InitialBodyState == "initial_body_state"
ArcWiseInitialBodyState == "arc_wise_initial_body_state"
InitialRotationalBodyState == "initial_rotational_body_state"

\* first key of a std::map with integer keys, or End
Begin(m) ==
    IF DOMAIN m = {} THEN End
    ELSE CHOOSE k \in DOMAIN m : \A o \in DOMAIN m : k <= o

\* parameterIterator++ : the next larger key, or End
Increment(m, k) ==
    LET later == {o \in DOMAIN m : o > k}
    IN  IF later = {} THEN End
        ELSE CHOOSE n \in later : \A o \in later : n <= o

\* std::map::insert, which leaves an entry that is there as it is
PutKeepingFirst(m, k, v) ==
    [x \in DOMAIN m \cup {k} |-> IF x \in DOMAIN m THEN m[x] ELSE v]

\* std::map operator[] assignment
Put(m, k, v) == [x \in DOMAIN m \cup {k} |-> IF x = k THEN v ELSE m[x]]

\* the empty std::map
EmptyMap == [x \in {} |-> 0]

(***************************************************************************)
(* Collaborators of the assembly functions, defined in other translation   *)
(* units; they are modelled from their documented contracts.               *)
(***************************************************************************)
\* Position partials of the link ends wrt the state of a body: one per link
\* end that is bound to that body.
createCartesianStatePartialsWrtBodyState(linkEndsMap, bodyToEstimate) ==
    {t \in DOMAIN linkEndsMap : linkEndsMap[t] = bodyToEstimate}

\* Position partials of the link ends wrt a (double or vector) parameter: one
\* per link end bound to the body the parameter is a property of.
createCartesianStatePartialsWrtParameter(linkEndsMap, parameterToEstimate) ==
    {t \in DOMAIN linkEndsMap : linkEndsMap[t] = parameterToEstimate.body}

FirstOrderRelativistic == "first_order_relativistic"
FunctionWrapper == "function_wrapper_light_time_correction"
PpnParameterGamma == [type |-> "ppn_parameter_gamma", body |-> "global_metric"]

\* createLightTimeCorrectionPartials: one partial object per correction model
\* that has partials; an object is the set of parameter names it has a
\* partial function for.
RECURSIVE createLightTimeCorrectionPartials(_)
createLightTimeCorrectionPartials(corrections) ==
    IF corrections = <<>> THEN <<>>
    ELSE LET rest == createLightTimeCorrectionPartials(Tail(corrections))
         IN  IF Head(corrections) = FirstOrderRelativistic
             THEN <<{PpnParameterGamma}>> \o rest
             ELSE rest

\* getNumberOfLighTimeCorrectionPartialsFunctions of a partial constructed
\* with these correction partial objects for this parameter name.
NumberOfLightTimeCorrectionPartialsFunctions(partialObjects, parameterName) ==
    LET hits == UNION {{<<leg, k>> : k \in {j \in DOMAIN partialObjects[leg] :
                                               parameterName \in partialObjects[leg][j]}} :
                       leg \in DOMAIN partialObjects}
    IN  Cardinality(hits)

\* isParameterObservationLinkProperty
isParameterObservationLinkProperty(parameterType) ==
    parameterType \in {"constant_additive_observation_bias",
                       "constant_relative_observation_bias"}

ParameterName(p) == [type |-> p.type, body |-> p.body]

\* name of the partial class the three variants construct
PartialClass(obs) ==
    CASE obs = MutualApproximation -> "MutualApproximationPartial"
      [] obs = MutualApproximationWithImpactParameter ->
             "MutualApproximationWithImpactParameterPartial"
      [] obs = ImpactParameterMutualApprox -> "ImpactParameterMutualApproxPartial"

\* MakePartial that drops the scaling object it is given
MakePartialWithoutScaler(obs, scaler, positionPartials, parameterName, partialObjects) ==
    [class |-> PartialClass(obs),
     scaler |-> Nullptr,
     positionPartials |-> positionPartials,
     parameterName |-> parameterName,
     numberOfLightTimeCorrectionPartialsFunctions |->
         NumberOfLightTimeCorrectionPartialsFunctions(partialObjects, parameterName)]

\* make_shared< ...Partial >( scaler, positionPartials, name, corrections )
MakePartial(obs, scaler, positionPartials, parameterName, partialObjects) ==
    [class |-> PartialClass(obs),
     scaler |-> scaler,
     positionPartials |-> positionPartials,
     parameterName |-> parameterName,
     numberOfLightTimeCorrectionPartialsFunctions |->
         NumberOfLightTimeCorrectionPartialsFunctions(partialObjects, parameterName)]

NullPartial == [class |-> "nullptr"]

\* create...PartialWrtBodyPosition (declared in the header, defined elsewhere):
\* nullptr if no position partial and no correction partial function exists.
createPartialWrtBodyPosition(obs, linkEndsMap, bodyToEstimate, scaler, partialObjects) ==
    LET positionPartials ==
            createCartesianStatePartialsWrtBodyState(linkEndsMap, bodyToEstimate)
        testPartial ==
            MakePartial(obs, scaler, positionPartials,
                        [type |-> InitialBodyState, body |-> bodyToEstimate],
                        partialObjects)
    IN  IF \/ Cardinality(positionPartials) > 0
           \/ testPartial.numberOfLightTimeCorrectionPartialsFunctions > 0
        THEN testPartial
        ELSE NullPartial

\* createObservationPartialWrtLinkProperty< N >( linkEnds, observableType,
\* parameter ): a partial of the bias of exactly these link ends and this
\* observable, nullptr otherwise.  No scaling object is handed to it.
createObservationPartialWrtLinkProperty(obs, linkEndsMap, parameterToEstimate) ==
    IF /\ parameterToEstimate.linkEnds = linkEndsMap
       /\ parameterToEstimate.observableType = obs
    THEN [class |-> "ObservationPartialWrtLinkProperty",
          scaler |-> Nullptr,
          positionPartials |-> {},
          parameterName |-> ParameterName(parameterToEstimate),
          numberOfLightTimeCorrectionPartialsFunctions |-> 0]
    ELSE NullPartial

\* create...PartialWrtParameter without the dependency test of line 93: the
\* test partial is returned for every parameter
createPartialWrtParameterAlways(obs, linkEndsMap, parameterToEstimate, scaler, partialObjects) ==
    MakePartial(obs, scaler,
                createCartesianStatePartialsWrtParameter(linkEndsMap, parameterToEstimate),
                ParameterName(parameterToEstimate), partialObjects)

\* create...PartialWrtParameter with the test of line 93 cut down to
\* positionPartials.size( ) > 0
createPartialWrtParameterPositionOnly(obs, linkEndsMap, parameterToEstimate, scaler, partialObjects) ==
    LET positionPartials ==
            createCartesianStatePartialsWrtParameter(linkEndsMap, parameterToEstimate)
        testPartial ==
            MakePartial(obs, scaler, positionPartials,
                        ParameterName(parameterToEstimate), partialObjects)
    IN  IF Cardinality(positionPartials) > 0
        THEN testPartial
        ELSE NullPartial

\* the two-valued copy of create...PartialWrtParameter left behind: it does
\* not look at the correction partial functions
createPartialWrtParameterTwoValuedBehind(obs, linkEndsMap, parameterToEstimate, scaler, partialObjects) ==
    LET positionPartials ==
            createCartesianStatePartialsWrtParameter(linkEndsMap, parameterToEstimate)
        testPartial ==
            MakePartial(obs, scaler, positionPartials,
                        ParameterName(parameterToEstimate), partialObjects)
    IN  IF \/ Cardinality(positionPartials) > 0
           \/ /\ obs # MutualApproximationWithImpactParameter
              /\ testPartial.numberOfLightTimeCorrectionPartialsFunctions > 0
        THEN testPartial
        ELSE NullPartial

(***************************************************************************)
(* create...PartialWrtParameter (lines 72-99, 363-391, 648-674).           *)
(***************************************************************************)
createPartialWrtParameter(obs, linkEndsMap, parameterToEstimate, scaler, partialObjects) ==
    LET positionPartials ==
            createCartesianStatePartialsWrtParameter(linkEndsMap, parameterToEstimate)
        testPartial ==
            MakePartial(obs, scaler, positionPartials,
                        ParameterName(parameterToEstimate), partialObjects)
    IN  IF \/ Cardinality(positionPartials) > 0
           \/ testPartial.numberOfLightTimeCorrectionPartialsFunctions > 0
        THEN testPartial
        ELSE NullPartial

(***************************************************************************)
(* State.                                                                  *)
(***************************************************************************)
VARIABLES
    \* ---- the call and its arguments
    mode,                   \* "single": a single-link call; "batch": a vector of link ends
    observable,             \* which of the three families of functions is called
    isCentralInstantUsedAsObservable,
    linkEnds,               \* batch argument: sequence of link ends
    parametersToEstimate,   \* [initialStates, doubles, vectors]
    dependentVariablesInterface, \* shared_ptr argument: an interface object or Nullptr
    lightTimeCorrectionsMap,\* batch argument: link ends -> correction groups
    \* ---- locals of the batch function
    batchI,                 \* loop counter i of the batch loop (from 1)
    batchPartials,          \* the map that is returned: link ends -> (partials, scaling)
    \* ---- arguments and locals of the single-link function
    mutualApproximationLinkEnds,
    lightTimeCorrections,
    lightTimeCorrectionPartialObjects,
    mutualApproximationScaling,
    mutualApproximationPartials,
    currentIndex,
    i,                      \* loop counter of the initial-state loop (from 1)
    parameterIterator,
    \* ---- the world
    pc,
    scalingObjects,         \* every scaling object constructed so far, by identity
    cerr,                   \* what was written to std::cerr
    factoryCalls,           \* the factory calls of the current single-link call, in order
    thrown,                 \* the exception that left the call, or NoError
    returned,               \* the value the call returned, or NoValue
    \* ---- the objects of the other classes, and the frame of a call on them
    tabulatedAtmosphere,    \* a TabulatedAtmosphere: its member variables
    torquePartial,          \* a SphericalHarmonicGravitationalTorquePartial
    simsFlanagan,           \* a SimsFlanagan: its member variables
    frame                   \* arguments and locals of the member function called

vars ==
    <<mode, observable, isCentralInstantUsedAsObservable, linkEnds,
      parametersToEstimate, lightTimeCorrectionsMap, batchI, batchPartials,
      mutualApproximationLinkEnds, lightTimeCorrections,
      lightTimeCorrectionPartialObjects, mutualApproximationScaling,
      mutualApproximationPartials, currentIndex, i, parameterIterator,
      pc, scalingObjects, cerr, thrown, returned,
      dependentVariablesInterface, factoryCalls,
      tabulatedAtmosphere, torquePartial, simsFlanagan, frame>>

\* the objects no function of createMutualApproximationPartials.h touches
otherObjects == <<tabulatedAtmosphere, torquePartial, simsFlanagan, frame>>

NoOtherObjects ==
    /\ tabulatedAtmosphere = NoValue
    /\ torquePartial = NoValue
    /\ simsFlanagan = NoValue
    /\ frame = NoValue

inputs ==
    <<mode, observable, isCentralInstantUsedAsObservable, linkEnds,
      parametersToEstimate, dependentVariablesInterface>>

batchLocals == <<batchI, batchPartials>>

\* what is written after "Error when making " in the single-link functions
SingleLinkErrorPrefix(obs) ==
    IF obs = ImpactParameterMutualApprox
    THEN "impact parameter (for mutual approximation) partials"
    ELSE "mutual approximation partials"

\* what is written after "Error when making " in the batch functions
BatchErrorPrefix(obs) ==
    CASE obs = MutualApproximation -> "mutual approximation partials"
      [] obs = MutualApproximationWithImpactParameter ->
             "mutual approximation with impact parameter partials"
      [] obs = ImpactParameterMutualApprox ->
             "impact parameter (for mutual approximation) partials"

LegCountMessage(prefix, n) ==
    <<prefix, "light time corrections for", n, "links found, instead of 2.">>

\* throw std::runtime_error: the exception leaves the single-link function
\* and, uncaught, the batch function that called it.  Nothing is returned.
Throw(message) ==
    /\ thrown' = message
    /\ pc' = "failed"
    /\ returned' = NoValue

\* the size check without its "size( ) > 0" guard
CorrectionCountIsNotTwo(n) == n # RequiredLegs

\* lines 132-134 (423-425, 706-708): the number of correction groups is wrong
CorrectionCountIsWrong(n) == n > 0 /\ n # RequiredLegs

\* the flag read the wrong way round
ScalingClassSwapped(obs, isCentral) ==
    CASE obs = MutualApproximation ->
             IF isCentral THEN "ModifiedMutualApproximationScaling"
             ELSE "MutualApproximationScaling"
      [] obs = MutualApproximationWithImpactParameter ->
             "MutualApproximationWithImpactParameterScaling"
      [] obs = ImpactParameterMutualApprox -> "ImpactParameterMutualApproxScaling"

\* the class of the scaling object, lines 146-154, 437-438, 720
ScalingClass(obs, isCentral) ==
    CASE obs = MutualApproximation ->
             IF isCentral THEN "MutualApproximationScaling"
             ELSE "ModifiedMutualApproximationScaling"
      [] obs = MutualApproximationWithImpactParameter ->
             "MutualApproximationWithImpactParameterScaling"
      [] obs = ImpactParameterMutualApprox -> "ImpactParameterMutualApproxScaling"

\* the two push_back with the legs the wrong way round
CorrectionPartialObjectsSwapped(corrections) ==
    IF Len(corrections) > 0
    THEN <<createLightTimeCorrectionPartials(corrections[2]),
           createLightTimeCorrectionPartials(corrections[1])>>
    ELSE <<>>

\* lines 131-143 (422-434, 705-717) past the check: the correction partial
\* objects of the two legs, none for an empty list of correction groups
CorrectionPartialObjects(corrections) ==
    IF Len(corrections) > 0
    THEN <<createLightTimeCorrectionPartials(corrections[1]),
           createLightTimeCorrectionPartials(corrections[2])>>
    ELSE <<>>

\* CreateCorrectionPartials with the scaling object made ahead of the
\* check of the number of correction groups
CreateCorrectionPartialsScalingFirst ==
    /\ pc = "corrections"
    /\ scalingObjects' =
           Append(scalingObjects,
                  [class |-> ScalingClass(observable, isCentralInstantUsedAsObservable),
                   dependentVariablesInterface |-> dependentVariablesInterface])
    /\ mutualApproximationScaling' = Len(scalingObjects) + 1
    /\ IF CorrectionCountIsWrong(Len(lightTimeCorrections))
       THEN /\ Throw(LegCountMessage(SingleLinkErrorPrefix(observable),
                                     Len(lightTimeCorrections)))
            /\ lightTimeCorrectionPartialObjects' = <<>>
            /\ UNCHANGED <<mutualApproximationPartials, currentIndex, i>>
       ELSE /\ lightTimeCorrectionPartialObjects' =
                   CorrectionPartialObjects(lightTimeCorrections)
            /\ mutualApproximationPartials' = EmptyMap
            /\ currentIndex' = 0
            /\ i' = 1
            /\ pc' = "dynamical"
            /\ UNCHANGED <<thrown, returned>>
    /\ UNCHANGED <<otherObjects, inputs, lightTimeCorrectionsMap, batchLocals,
                   mutualApproximationLinkEnds, lightTimeCorrections,
                   parameterIterator, cerr, factoryCalls>>

(***************************************************************************)
(* Single-link assembly, lines 131-143 (422-434, 705-717): the check of    *)
(* the number of correction groups and the correction partial objects.     *)
(***************************************************************************)
CreateCorrectionPartials ==
    /\ pc = "corrections"
    /\ IF CorrectionCountIsWrong(Len(lightTimeCorrections))
       THEN /\ Throw(LegCountMessage(SingleLinkErrorPrefix(observable),
                                     Len(lightTimeCorrections)))
            /\ lightTimeCorrectionPartialObjects' = <<>>
       ELSE /\ lightTimeCorrectionPartialObjects' =
                   CorrectionPartialObjects(lightTimeCorrections)
            /\ pc' = "scaling"
            /\ UNCHANGED <<thrown, returned>>
    /\ UNCHANGED <<otherObjects, inputs, lightTimeCorrectionsMap, batchLocals,
                   mutualApproximationLinkEnds, lightTimeCorrections,
                   mutualApproximationScaling, mutualApproximationPartials,
                   currentIndex, i, parameterIterator, scalingObjects, cerr,
                   factoryCalls>>

\* a scaling object that is constructed without the interface
ScalingObjectWithoutInterface(class, interface) ==
    [class |-> class, dependentVariablesInterface |-> Nullptr]

\* std::make_shared< ...Scaling >( dependentVariablesInterface ), lines 149,
\* 153, 437-438, 720: the object keeps the pointer it is given
ScalingObject(class, interface) ==
    [class |-> class, dependentVariablesInterface |-> interface]

\* CreateScaling that makes a scaling object only for the first link ends
\* and hands the same instance to every later call
CreateScalingOnce ==
    /\ pc = "scaling"
    /\ scalingObjects' =
           IF scalingObjects = <<>>
           THEN <<ScalingObject(ScalingClass(observable,
                                             isCentralInstantUsedAsObservable),
                                dependentVariablesInterface)>>
           ELSE scalingObjects
    /\ mutualApproximationScaling' = 1
    /\ mutualApproximationPartials' = EmptyMap
    /\ currentIndex' = 0
    /\ i' = 1
    /\ pc' = "dynamical"
    /\ UNCHANGED <<otherObjects, inputs, lightTimeCorrectionsMap, batchLocals,
                   mutualApproximationLinkEnds, lightTimeCorrections,
                   lightTimeCorrectionPartialObjects, parameterIterator,
                   cerr, thrown, returned, factoryCalls>>

(***************************************************************************)
(* Lines 145-165: the scaling object of the link ends, the empty list of   *)
(* partials, currentIndex = 0.                                             *)
(***************************************************************************)
CreateScaling ==
    /\ pc = "scaling"
    /\ scalingObjects' =
           Append(scalingObjects,
                  ScalingObject(ScalingClass(observable,
                                             isCentralInstantUsedAsObservable),
                                dependentVariablesInterface))
    /\ mutualApproximationScaling' = Len(scalingObjects) + 1
    /\ mutualApproximationPartials' = EmptyMap
    /\ currentIndex' = 0
    /\ i' = 1
    /\ pc' = "dynamical"
    /\ UNCHANGED <<otherObjects, inputs, lightTimeCorrectionsMap, batchLocals,
                   mutualApproximationLinkEnds, lightTimeCorrections,
                   lightTimeCorrectionPartialObjects, parameterIterator,
                   cerr, thrown, returned, factoryCalls>>

PositionCoupledFactory == "createPartialWrtParameter"
BodyPositionFactory == "createPartialWrtBodyPosition"
LinkPropertyFactory == "createObservationPartialWrtLinkProperty"

\* one call of a factory: the loop it is made in, the loop position (the
\* list position of an initial state, the map key of a double or vector
\* parameter), the factory and the size N of its ObservationPartial< N >
FactoryCall(loop, index, factory) ==
    [loop |-> loop, index |-> index, factory |-> factory,
     dimension |-> ObservableSize(observable)]

\* the identification without its final else: nothing is rejected
CouldNotIdentifyNever(parameter) == FALSE

\* lines 171-183 (456-468, 737-749): the category of an initial-state
\* parameter names no body
CouldNotIdentify(parameter) ==
    /\ parameter.type # InitialBodyState
    /\ parameter.type # ArcWiseInitialBodyState

\* InsertDynamicalPartial with the index advanced inside the nullptr test:
\* no index space is reserved for a parameter without a block
InsertDynamicalPartialAdvanceOnInsert ==
    LET acceleratedBody == parametersToEstimate.initialStates[i].body
        currentPartial ==
            createPartialWrtBodyPosition(
                observable, mutualApproximationLinkEnds, acceleratedBody,
                mutualApproximationScaling, lightTimeCorrectionPartialObjects)
    IN  /\ mutualApproximationPartials' =
               IF currentPartial # NullPartial
               THEN Put(mutualApproximationPartials,
                        <<currentIndex, StateSize>>, currentPartial)
               ELSE mutualApproximationPartials
        /\ currentIndex' =
               IF currentPartial # NullPartial
               THEN currentIndex + StateSize
               ELSE currentIndex
        /\ i' = i + 1
        /\ factoryCalls' =
               Append(factoryCalls, FactoryCall("initialState", i, BodyPositionFactory))

\* InsertDynamicalPartial with the pair of line 161, made before the loop
\* with currentIndex = 0, never made anew: every block goes to index 0
InsertDynamicalPartialAtFirstPair ==
    LET acceleratedBody == parametersToEstimate.initialStates[i].body
        currentPartial ==
            createPartialWrtBodyPosition(
                observable, mutualApproximationLinkEnds, acceleratedBody,
                mutualApproximationScaling, lightTimeCorrectionPartialObjects)
    IN  /\ mutualApproximationPartials' =
               IF currentPartial # NullPartial
               THEN Put(mutualApproximationPartials, <<0, StateSize>>, currentPartial)
               ELSE mutualApproximationPartials
        /\ currentIndex' = currentIndex + StateSize
        /\ i' = i + 1
        /\ factoryCalls' =
               Append(factoryCalls, FactoryCall("initialState", i, BodyPositionFactory))

\* InsertDynamicalPartial with the size of the parameter in place of the
\* literal 6, in the key and in the advance of the index
InsertDynamicalPartialOfParameterSize ==
    LET acceleratedBody == parametersToEstimate.initialStates[i].body
        parameterSize == parametersToEstimate.initialStates[i].size
        currentPartial ==
            createPartialWrtBodyPosition(
                observable, mutualApproximationLinkEnds, acceleratedBody,
                mutualApproximationScaling, lightTimeCorrectionPartialObjects)
    IN  /\ mutualApproximationPartials' =
               IF currentPartial # NullPartial
               THEN Put(mutualApproximationPartials,
                        <<currentIndex, parameterSize>>, currentPartial)
               ELSE mutualApproximationPartials
        /\ currentIndex' = currentIndex + parameterSize
        /\ i' = i + 1
        /\ factoryCalls' =
               Append(factoryCalls, FactoryCall("initialState", i, BodyPositionFactory))

\* lines 185-199 (470-485, 751-765): the partial wrt the position of the body
\* of the i-th initial-state parameter, its insertion and the index advance
InsertDynamicalPartial ==
    LET acceleratedBody == parametersToEstimate.initialStates[i].body
        currentPartial ==
            createPartialWrtBodyPosition(
                observable, mutualApproximationLinkEnds, acceleratedBody,
                mutualApproximationScaling, lightTimeCorrectionPartialObjects)
    IN  /\ mutualApproximationPartials' =
               IF currentPartial # NullPartial
               THEN Put(mutualApproximationPartials,
                        <<currentIndex, StateSize>>, currentPartial)
               ELSE mutualApproximationPartials
        /\ currentIndex' = currentIndex + StateSize
        /\ i' = i + 1
        /\ factoryCalls' =
               Append(factoryCalls, FactoryCall("initialState", i, BodyPositionFactory))

(***************************************************************************)
(* Lines 168-200 (453-486, 734-766): one pass of the loop over the         *)
(* initial-state parameters, or its exit.                                  *)
(***************************************************************************)
DynamicalParameterLoop ==
    /\ pc = "dynamical"
    /\ IF i <= Len(parametersToEstimate.initialStates)
       THEN IF CouldNotIdentify(parametersToEstimate.initialStates[i])
            THEN /\ Throw(<<SingleLinkErrorPrefix(observable),
                            "could not identify parameter">>)
                 /\ UNCHANGED <<mutualApproximationPartials, currentIndex, i,
                                parameterIterator, factoryCalls>>
            ELSE /\ InsertDynamicalPartial
                 /\ UNCHANGED <<pc, parameterIterator, thrown, returned>>
       ELSE /\ pc' = "double"
            /\ parameterIterator' = Begin(parametersToEstimate.doubles)
            /\ UNCHANGED <<mutualApproximationPartials, currentIndex, i,
                           thrown, returned, factoryCalls>>
    /\ UNCHANGED <<otherObjects, inputs, lightTimeCorrectionsMap, batchLocals,
                   mutualApproximationLinkEnds, lightTimeCorrections,
                   lightTimeCorrectionPartialObjects, mutualApproximationScaling,
                   scalingObjects, cerr>>

\* the partial a factory returns for a double or vector parameter of the
\* current call
CallFactory(factory, parameter) ==
    IF factory = PositionCoupledFactory
    THEN createPartialWrtParameter(
             observable, mutualApproximationLinkEnds, parameter,
             mutualApproximationScaling, lightTimeCorrectionPartialObjects)
    ELSE createObservationPartialWrtLinkProperty(
             observable, mutualApproximationLinkEnds, parameter)

\* the dispatch of the vector loop applied to the double parameters
DoubleParameterFactoryByKind(parameter) ==
    IF ~isParameterObservationLinkProperty(parameter.type)
    THEN PositionCoupledFactory
    ELSE LinkPropertyFactory

\* lines 210-212 (493-495, 774-776): the factory of a double parameter; the
\* kind of the parameter is not looked at
DoubleParameterFactory(parameter) == PositionCoupledFactory

\* the key of a double block made with the running index of the initial
\* states instead of the key of the parameter
DoublePairAtRunningIndex(index) == <<currentIndex, 1>>

\* line 217 (501, 781): the key of the block of a double parameter
DoublePair(index) == <<index, 1>>

(***************************************************************************)
(* Lines 202-220 (488-506, 768-786): one pass of the loop over the double  *)
(* parameters, or its exit.                                                *)
(***************************************************************************)
DoubleParameterLoop ==
    /\ pc = "double"
    /\ LET doubleParametersToEstimate == parametersToEstimate.doubles
       IN  IF parameterIterator # End
           THEN LET parameter == doubleParametersToEstimate[parameterIterator]
                    factory == DoubleParameterFactory(parameter)
                    currentPartial == CallFactory(factory, parameter)
                IN  /\ mutualApproximationPartials' =
                           IF currentPartial # NullPartial
                           THEN Put(mutualApproximationPartials,
                                    DoublePair(parameterIterator), currentPartial)
                           ELSE mutualApproximationPartials
                    /\ parameterIterator' =
                           Increment(doubleParametersToEstimate, parameterIterator)
                    /\ factoryCalls' =
                           Append(factoryCalls,
                                  FactoryCall("double", parameterIterator, factory))
                    /\ UNCHANGED pc
           ELSE /\ pc' = "vector"
                /\ parameterIterator' = Begin(parametersToEstimate.vectors)
                /\ UNCHANGED <<mutualApproximationPartials, factoryCalls>>
    /\ UNCHANGED <<otherObjects, inputs, lightTimeCorrectionsMap, batchLocals,
                   mutualApproximationLinkEnds, lightTimeCorrections,
                   lightTimeCorrectionPartialObjects, mutualApproximationScaling,
                   currentIndex, i, scalingObjects, cerr, thrown, returned>>

\* the vector loop without its else branch: every vector parameter goes to
\* the position-coupled factory
VectorParameterFactoryPositionCoupled(parameter) == PositionCoupledFactory

\* lines 233-243 (519-529, 799-809): the factory of a vector parameter
VectorParameterFactory(parameter) ==
    IF ~isParameterObservationLinkProperty(parameter.type)
    THEN PositionCoupledFactory
    ELSE LinkPropertyFactory

\* the key of a vector block with the size of a double block
VectorPairOfSizeOne(index, parameter) == <<index, 1>>

\* lines 249-250 (535-536, 815-816): the key of the block of a vector
\* parameter, with getParameterSize( )
VectorPair(index, parameter) == <<index, parameter.size>>

(***************************************************************************)
(* Lines 222-254 (508-540, 788-820): one pass of the loop over the vector  *)
(* parameters, or its exit.                                                *)
(***************************************************************************)
VectorParameterLoop ==
    /\ pc = "vector"
    /\ LET vectorParametersToEstimate == parametersToEstimate.vectors
       IN  IF parameterIterator # End
           THEN LET parameter == vectorParametersToEstimate[parameterIterator]
                    factory == VectorParameterFactory(parameter)
                    currentPartial == CallFactory(factory, parameter)
                IN  /\ mutualApproximationPartials' =
                           IF currentPartial # NullPartial
                           THEN Put(mutualApproximationPartials,
                                    VectorPair(parameterIterator, parameter),
                                    currentPartial)
                           ELSE mutualApproximationPartials
                    /\ parameterIterator' =
                           Increment(vectorParametersToEstimate, parameterIterator)
                    /\ factoryCalls' =
                           Append(factoryCalls,
                                  FactoryCall("vector", parameterIterator, factory))
                    /\ UNCHANGED pc
           ELSE /\ pc' = "return"
                /\ UNCHANGED <<mutualApproximationPartials, parameterIterator,
                               factoryCalls>>
    /\ UNCHANGED <<otherObjects, inputs, lightTimeCorrectionsMap, batchLocals,
                   mutualApproximationLinkEnds, lightTimeCorrections,
                   lightTimeCorrectionPartialObjects, mutualApproximationScaling,
                   currentIndex, i, scalingObjects, cerr, thrown, returned>>

\* std::make_pair( mutualApproximationPartials, mutualApproximationScaling )
SingleLinkResult ==
    [partials |-> mutualApproximationPartials,
     scaling |-> mutualApproximationScaling]

(***************************************************************************)
(* Line 255 (541, 821): the single-link function returns.  Called from the *)
(* batch function, the pair is stored under the link ends (lines 321-322)  *)
(* and the batch loop goes on.                                             *)
(***************************************************************************)
ReturnPartials ==
    /\ pc = "return"
    /\ IF mode = "single"
       THEN /\ returned' = SingleLinkResult
            /\ pc' = "done"
            /\ UNCHANGED batchLocals
       ELSE /\ batchPartials' =
                   Put(batchPartials, linkEnds[batchI], SingleLinkResult)
            /\ batchI' = batchI + 1
            /\ pc' = "batch"
            /\ UNCHANGED returned
    /\ UNCHANGED <<otherObjects, inputs, lightTimeCorrectionsMap,
                   mutualApproximationLinkEnds, lightTimeCorrections,
                   lightTimeCorrectionPartialObjects, mutualApproximationScaling,
                   mutualApproximationPartials, currentIndex, i, parameterIterator,
                   scalingObjects, cerr, thrown, factoryCalls>>

(***************************************************************************)
(* The batch functions, lines 289-325 (573-610, 855-890).                  *)
(***************************************************************************)
\* the role check of the two-link-end observables: transmitter2 is not asked for
ReceiverOrTransmitterMissing(linkEndsMap) ==
    \/ Count(linkEndsMap, "receiver") = 0
    \/ Count(linkEndsMap, "transmitter") = 0

\* lines 297-299: a required link end type is not present
RequiredLinkEndMissing(linkEndsMap) ==
    \/ Count(linkEndsMap, "receiver") = 0
    \/ Count(linkEndsMap, "transmitter") = 0
    \/ Count(linkEndsMap, "transmitter2") = 0

\* the lookup with a fall-back: a list of the wrong size is replaced by the
\* empty list
CurrentLightTimeCorrectionsOrEmpty(correctionsMap, linkEndsMap) ==
    IF /\ Count(correctionsMap, linkEndsMap) > 0
       /\ Len(correctionsMap[linkEndsMap]) = RequiredLegs
    THEN correctionsMap[linkEndsMap]
    ELSE <<>>

\* the lookup made once, for the first link ends, and used for all of them
CurrentLightTimeCorrectionsOfFirstLink(correctionsMap, linkEndsMap) ==
    IF Count(correctionsMap, linkEnds[1]) > 0
    THEN correctionsMap[linkEnds[1]]
    ELSE <<>>

\* lines 305-318: the correction groups handed to the single-link call
CurrentLightTimeCorrections(correctionsMap, linkEndsMap) ==
    IF Count(correctionsMap, linkEndsMap) > 0
    THEN correctionsMap[linkEndsMap]
    ELSE <<>>

\* the lookup that never writes a diagnostic
LookupDiagnosticsNone(obs, correctionsMap, linkEndsMap) == <<>>

\* the size test outside the count( ) > 0 test: an absent entry counts as a
\* list of size 0
LookupDiagnosticsOnAbsent(obs, correctionsMap, linkEndsMap) ==
    LET n == IF Count(correctionsMap, linkEndsMap) > 0
             THEN Len(correctionsMap[linkEndsMap])
             ELSE 0
    IN  IF n # RequiredLegs
        THEN <<LegCountMessage(BatchErrorPrefix(obs), n)>>
        ELSE <<>>

\* lines 306-312: what the lookup writes to std::cerr
LookupDiagnostics(obs, correctionsMap, linkEndsMap) ==
    IF /\ Count(correctionsMap, linkEndsMap) > 0
       /\ Len(correctionsMap[linkEndsMap]) # RequiredLegs
    THEN <<LegCountMessage(BatchErrorPrefix(obs), Len(correctionsMap[linkEndsMap]))>>
    ELSE <<>>

\* BatchLoop that skips link ends without the required link end types
\* instead of throwing
BatchLoopSkipIncomplete ==
    /\ pc = "batch"
    /\ IF batchI <= Len(linkEnds)
       THEN IF RequiredLinkEndMissing(linkEnds[batchI])
            THEN /\ batchI' = batchI + 1
                 /\ UNCHANGED <<pc, cerr, thrown, returned, batchPartials,
                                mutualApproximationLinkEnds, lightTimeCorrections>>
            ELSE /\ cerr' = cerr \o LookupDiagnostics(observable,
                                        lightTimeCorrectionsMap, linkEnds[batchI])
                 /\ lightTimeCorrections' =
                        CurrentLightTimeCorrections(lightTimeCorrectionsMap,
                                                    linkEnds[batchI])
                 /\ mutualApproximationLinkEnds' = linkEnds[batchI]
                 /\ pc' = "corrections"
                 /\ UNCHANGED <<thrown, returned, batchLocals>>
       ELSE /\ returned' = batchPartials
            /\ pc' = "done"
            /\ UNCHANGED <<cerr, thrown, mutualApproximationLinkEnds,
                           lightTimeCorrections, batchLocals>>
    /\ lightTimeCorrectionPartialObjects' = <<>>
    /\ mutualApproximationScaling' = Nullptr
    /\ mutualApproximationPartials' = EmptyMap
    /\ currentIndex' = 0
    /\ i' = 1
    /\ parameterIterator' = End
    /\ factoryCalls' = <<>>
    /\ UNCHANGED <<otherObjects, inputs, lightTimeCorrectionsMap, scalingObjects>>

\* One pass of the loop over the link ends up to the call of the single-link
\* function (lines 294-322), or the return of the map (line 324).
BatchLoop ==
    /\ pc = "batch"
    /\ IF batchI <= Len(linkEnds)
       THEN IF RequiredLinkEndMissing(linkEnds[batchI])
            THEN /\ Throw(<<BatchErrorPrefix(observable),
                            "did not find both transmitter, transmitter2 and receiver in link ends">>)
                 /\ UNCHANGED <<cerr, mutualApproximationLinkEnds,
                                lightTimeCorrections>>
            ELSE /\ cerr' = cerr \o LookupDiagnostics(observable,
                                        lightTimeCorrectionsMap, linkEnds[batchI])
                 /\ lightTimeCorrections' =
                        CurrentLightTimeCorrections(lightTimeCorrectionsMap,
                                                    linkEnds[batchI])
                 /\ mutualApproximationLinkEnds' = linkEnds[batchI]
                 /\ pc' = "corrections"
                 /\ UNCHANGED <<thrown, returned>>
       ELSE /\ returned' = batchPartials
            /\ pc' = "done"
            /\ UNCHANGED <<cerr, thrown, mutualApproximationLinkEnds,
                           lightTimeCorrections>>
    \* the locals of the previous single-link call are gone
    /\ lightTimeCorrectionPartialObjects' = <<>>
    /\ mutualApproximationScaling' = Nullptr
    /\ mutualApproximationPartials' = EmptyMap
    /\ currentIndex' = 0
    /\ i' = 1
    /\ parameterIterator' = End
    /\ factoryCalls' = <<>>
    /\ UNCHANGED <<otherObjects, inputs, lightTimeCorrectionsMap, batchLocals, scalingObjects>>

(***************************************************************************)
(* Inputs.                                                                 *)
(***************************************************************************)
RECURSIVE SeqsUpTo(_, _)
SeqsUpTo(S, n) ==
    IF n = 0 THEN {<<>>}
    ELSE LET shorter == SeqsUpTo(S, n - 1)
         IN  shorter \cup {Append(q, x) : q \in {r \in shorter : Len(r) = n - 1}, x \in S}

\* maps from a subset of the keys to the values
PartialMaps(Keys, Values) == UNION {[D -> Values] : D \in SUBSET Keys}

LinkBodies == {"A", "B"}

\* complete link ends and link ends that lack one link end type
AllLinkEnds ==
    UNION {[S -> LinkBodies] : S \in {T \in SUBSET LinkEndTypes : Cardinality(T) >= 2}}

InitialStateParameter(type, body, size) ==
    [type |-> type, body |-> body, size |-> size]

\* "C" is a body that is no link end of any link ends
InitialStateChoices ==
    {InitialStateParameter(InitialBodyState, "A", 6),
     InitialStateParameter(InitialBodyState, "C", 6),
     InitialStateParameter(ArcWiseInitialBodyState, "A", 12),
     InitialStateParameter(InitialRotationalBodyState, "A", 7)}

DoubleChoices ==
    {PpnParameterGamma,
     [type |-> "constant_rotation_rate", body |-> "A"]}

VectorParameter(type, body, size, linkEndsMap, obs) ==
    [type |-> type, body |-> body, size |-> size,
     linkEnds |-> linkEndsMap, observableType |-> obs]

Link(transmitter, transmitter2, receiver) ==
    [t \in LinkEndTypes |->
        CASE t = "transmitter" -> transmitter
          [] t = "transmitter2" -> transmitter2
          [] t = "receiver" -> receiver]

Without(linkEndsMap, type) ==
    [t \in (DOMAIN linkEndsMap) \ {type} |-> linkEndsMap[t]]

VectorChoices ==
    {VectorParameter("rotation_pole_position", "A", 2, EmptyMap, ""),
     VectorParameter("rotation_pole_position", "C", 2, EmptyMap, ""),
     VectorParameter("constant_additive_observation_bias", "", 1,
                     Link("A", "B", "A"), MutualApproximation),
     VectorParameter("constant_additive_observation_bias", "", 2,
                     Link("A", "B", "A"), MutualApproximationWithImpactParameter)}

ParameterSets(Dyn, DoubleKeys, VectorKeys) ==
    [initialStates : Dyn,
     doubles : PartialMaps(DoubleKeys, DoubleChoices),
     vectors : PartialMaps(VectorKeys, VectorChoices)]

GroupChoices == {<<>>, <<FirstOrderRelativistic>>}

ObservableChoices ==
    {<<MutualApproximation, TRUE>>, <<MutualApproximation, FALSE>>,
     <<MutualApproximationWithImpactParameter, FALSE>>,
     <<ImpactParameterMutualApprox, FALSE>>}

TypeOK ==
    /\ mode \in {"single", "batch"}
    /\ pc \in {"batch", "corrections", "scaling", "dynamical", "double",
               "vector", "return", "done", "failed"}
    /\ observable \in ObservableTypes
    /\ currentIndex \in Nat
    /\ mutualApproximationScaling \in 0..Len(scalingObjects)
    /\ dependentVariablesInterface \in InterfaceChoices
    /\ Len(factoryCalls) <= currentIndex \div StateSize
                                + Cardinality(DOMAIN parametersToEstimate.doubles)
                                + Cardinality(DOMAIN parametersToEstimate.vectors)

InitSingleLink(Links, Parameters, Corrections, Interfaces) ==
    /\ mode = "single"
    /\ dependentVariablesInterface \in Interfaces
    /\ \E o \in ObservableChoices :
          /\ observable = o[1]
          /\ isCentralInstantUsedAsObservable = o[2]
    /\ linkEnds = <<>>
    /\ lightTimeCorrectionsMap = EmptyMap
    /\ parametersToEstimate \in Parameters
    /\ mutualApproximationLinkEnds \in Links
    /\ lightTimeCorrections \in Corrections
    /\ batchI = 1
    /\ batchPartials = EmptyMap
    /\ lightTimeCorrectionPartialObjects = <<>>
    /\ mutualApproximationScaling = Nullptr
    /\ mutualApproximationPartials = EmptyMap
    /\ currentIndex = 0
    /\ i = 1
    /\ parameterIterator = End
    /\ pc = "corrections"
    /\ scalingObjects = <<>>
    /\ cerr = <<>>
    /\ factoryCalls = <<>>
    /\ thrown = NoError
    /\ returned = NoValue
    /\ NoOtherObjects

\* the batch call: the correction map has entries for some of the link ends
InitBatch(Links, Parameters, Corrections, Interfaces) ==
    /\ mode = "batch"
    /\ dependentVariablesInterface \in Interfaces
    /\ \E o \in ObservableChoices :
          /\ observable = o[1]
          /\ isCentralInstantUsedAsObservable = o[2]
    /\ linkEnds \in SeqsUpTo(Links, MaxLinks)
    /\ lightTimeCorrectionsMap \in
           PartialMaps({linkEnds[k] : k \in DOMAIN linkEnds}, Corrections)
    /\ parametersToEstimate \in Parameters
    /\ mutualApproximationLinkEnds = EmptyMap
    /\ lightTimeCorrections = <<>>
    /\ batchI = 1
    /\ batchPartials = EmptyMap
    /\ lightTimeCorrectionPartialObjects = <<>>
    /\ mutualApproximationScaling = Nullptr
    /\ mutualApproximationPartials = EmptyMap
    /\ currentIndex = 0
    /\ i = 1
    /\ parameterIterator = End
    /\ pc = "batch"
    /\ scalingObjects = <<>>
    /\ cerr = <<>>
    /\ factoryCalls = <<>>
    /\ thrown = NoError
    /\ returned = NoValue
    /\ NoOtherObjects

SingleLinkChoices ==
    {Link("A", "B", "A"), Link("B", "B", "B"),
     Without(Link("A", "B", "A"), "receiver"),
     Without(Link("A", "B", "A"), "transmitter"),
     Without(Link("A", "B", "A"), "transmitter2")}

BatchLinkChoices ==
    {Link("A", "B", "A"), Link("B", "B", "B"),
     Without(Link("A", "B", "A"), "receiver"),
     Without(Link("A", "B", "A"), "transmitter2")}

\* parameter sets of the batch calls: at most one parameter
BatchParameterSets ==
    {[initialStates |-> <<>>, doubles |-> EmptyMap, vectors |-> EmptyMap],
     [initialStates |-> <<InitialStateParameter(InitialBodyState, "A", 6)>>,
      doubles |-> EmptyMap, vectors |-> EmptyMap],
     [initialStates |-> <<InitialStateParameter(InitialRotationalBodyState, "A", 7)>>,
      doubles |-> EmptyMap, vectors |-> EmptyMap],
     [initialStates |-> <<>>, doubles |-> [k \in {20} |-> PpnParameterGamma],
      vectors |-> EmptyMap]}

\* a double parameter object that carries the name of a link property
LinkPropertyDouble ==
    VectorParameter("constant_additive_observation_bias", "", 1,
                    Link("A", "B", "A"), MutualApproximation)

\* parameter sets with two double and two vector parameters behind the
\* initial states of A and B (indices 0..11)
DoubleIndices == {20, 21}
VectorIndices == {22, 24}

CatalogParameterSets ==
    [initialStates : {<<>>, <<InitialStateParameter(InitialBodyState, "A", 6),
                              InitialStateParameter(InitialBodyState, "B", 6)>>},
     doubles : PartialMaps(DoubleIndices, DoubleChoices \cup {LinkPropertyDouble}),
     vectors : PartialMaps(VectorIndices, VectorChoices)]

RelativisticLegs == <<<<FirstOrderRelativistic>>, <<FirstOrderRelativistic>>>>

Init ==
    \/ InitSingleLink(SingleLinkChoices,
                      ParameterSets(SeqsUpTo(InitialStateChoices, MaxDyn), {20}, {21}),
                      SeqsUpTo(GroupChoices, MaxGroups), {TheInterface})
    \/ InitSingleLink({Link("A", "B", "A")}, CatalogParameterSets,
                      {<<>>, RelativisticLegs}, InterfaceChoices)
    \/ InitBatch(BatchLinkChoices, BatchParameterSets,
                 SeqsUpTo({<<FunctionWrapper, FirstOrderRelativistic>>}, MaxGroups),
                 InterfaceChoices)

Next ==
    \/ BatchLoop
    \/ CreateCorrectionPartials
    \/ CreateScaling
    \/ DynamicalParameterLoop
    \/ DoubleParameterLoop
    \/ VectorParameterLoop
    \/ ReturnPartials

Spec == Init /\ [][Next]_vars

(***************************************************************************)
(* Properties.                                                             *)
(***************************************************************************)
\* the single-link function is past its loop over the initial-state parameters
DynamicalLoopCompleted == pc \in {"double", "vector", "return"}

\* C1 -- Index reservation: once the loop over the N initial-state
\* parameters of a single-link assembly has completed, the running index is
\* 6*N, whatever partials the factory returned (block or nullptr), for each
\* of the three observables; inside the loop the index is 6 times the number
\* of parameters already visited.
C1_IndexReservation ==
    /\ DynamicalLoopCompleted =>
           currentIndex = StateSize * Len(parametersToEstimate.initialStates)
    /\ pc = "dynamical" => currentIndex = StateSize * (i - 1)

\* C1 witness: two initial-state parameters were visited, one of them gave a
\* block and the other did not, and the index is 12.
C1_Witness ==
    /\ DynamicalLoopCompleted
    /\ Len(parametersToEstimate.initialStates) = 2
    /\ Cardinality(DOMAIN mutualApproximationPartials) = 1
    /\ currentIndex = 12

\* the parameter name under which the body-position factory asks the
\* correction partials for a partial function
BodyStateName(body) == [type |-> InitialBodyState, body |-> body]

\* no position partial and no correction partial function for this name
NoDependency(positionPartials, parameterName) ==
    /\ positionPartials = {}
    /\ NumberOfLightTimeCorrectionPartialsFunctions(
           lightTimeCorrectionPartialObjects, parameterName) = 0

DynamicalWithoutDependency ==
    {k \in DOMAIN parametersToEstimate.initialStates :
        LET body == parametersToEstimate.initialStates[k].body
        IN  NoDependency({t \in DOMAIN mutualApproximationLinkEnds :
                              mutualApproximationLinkEnds[t] = body},
                         BodyStateName(body))}

DoublesWithoutDependency ==
    {g \in DOMAIN parametersToEstimate.doubles :
        LET p == parametersToEstimate.doubles[g]
        IN  NoDependency({t \in DOMAIN mutualApproximationLinkEnds :
                              mutualApproximationLinkEnds[t] = p.body},
                         ParameterName(p))}

\* position-coupled (not link-property) vector parameters without dependency
VectorsWithoutDependency ==
    {g \in DOMAIN parametersToEstimate.vectors :
        LET p == parametersToEstimate.vectors[g]
        IN  /\ ~isParameterObservationLinkProperty(p.type)
            /\ NoDependency({t \in DOMAIN mutualApproximationLinkEnds :
                                 mutualApproximationLinkEnds[t] = p.body},
                            ParameterName(p))}

\* C2 -- Sparsity: when single-link assembly returns, the block map has no
\* key for the index range of any initial-state, double or position-coupled
\* vector parameter that has no position partial for the link ends and no
\* correction partial function: the parameter is left out, not zero-filled.
C2_Sparsity ==
    pc = "return" =>
        /\ \A k \in DynamicalWithoutDependency :
               <<StateSize * (k - 1), StateSize>> \notin DOMAIN mutualApproximationPartials
        /\ \A g \in DoublesWithoutDependency :
               <<g, 1>> \notin DOMAIN mutualApproximationPartials
        /\ \A g \in VectorsWithoutDependency :
               <<g, parametersToEstimate.vectors[g].size>>
                   \notin DOMAIN mutualApproximationPartials

\* C2 witness: the call returns a map that has a block, while a parameter of
\* each of the three kinds has no dependency.
C2_Witness ==
    /\ pc = "return"
    /\ DynamicalWithoutDependency # {}
    /\ DoublesWithoutDependency # {}
    /\ VectorsWithoutDependency # {}
    /\ mutualApproximationPartials # EmptyMap

LinkPropertyClass == "ObservationPartialWrtLinkProperty"

\* C3 as stated: every block of the returned map references the returned
\* scaling object, the blocks of link-property vector parameters included.
C3_Original ==
    (pc = "done" /\ mode = "single") =>
        \A key \in DOMAIN returned.partials :
            returned.partials[key].scaler = returned.scaling

\* C3 amended -- Scaling-object sharing: one scaling object is constructed
\* per single-link call and returned with the map; every block made by the
\* position-coupled factories (initial states, double parameters, vector
\* parameters that are no link property) references that instance; a block
\* of a link-property vector parameter is made without the scaling object
\* and references none.
C3_ScalingShared ==
    (pc = "done" /\ mode = "single") =>
        /\ Len(scalingObjects) = 1
        /\ returned.scaling = 1
        /\ \A key \in DOMAIN returned.partials :
               IF returned.partials[key].class = LinkPropertyClass
               THEN returned.partials[key].scaler = Nullptr
               ELSE returned.partials[key].scaler = returned.scaling

\* C3 witness: a returned map with a link-property block and two blocks of
\* the position-coupled factories.
C3_Witness ==
    /\ pc = "done" /\ mode = "single"
    /\ \E key \in DOMAIN returned.partials :
           returned.partials[key].class = LinkPropertyClass
    /\ Cardinality({key \in DOMAIN returned.partials :
                       returned.partials[key].scaler = returned.scaling}) >= 2

HasAllLinkEndTypes(linkEndsMap) == LinkEndTypes \subseteq DOMAIN linkEndsMap

ThrownKind == IF thrown = NoError THEN "" ELSE thrown[2]

RolesMessage == "did not find both transmitter, transmitter2 and receiver in link ends"

\* C4 as stated: a single-link call on link ends that lack a required link
\* end type fails before the scaling object is constructed, and returns
\* nothing.
C4_Original ==
    (mode = "single" /\ ~HasAllLinkEndTypes(mutualApproximationLinkEnds)) =>
        /\ scalingObjects = <<>>
        /\ returned = NoValue

\* C4 amended -- Role validation: only the batch functions check the link end
\* types.  A batch call throws at the first link ends that lack transmitter,
\* transmitter2 or receiver, before the single-link function is called for
\* them (no scaling object, no block for them), and returns nothing; the
\* single-link function is only ever entered from a batch with complete link
\* ends.  Called directly, the single-link function makes no such check and
\* never raises this error.
C4_RoleValidationInBatch ==
    /\ ThrownKind = RolesMessage =>
           /\ mode = "batch"
           /\ returned = NoValue
           /\ ~HasAllLinkEndTypes(linkEnds[batchI])
           /\ \A k \in 1..(batchI - 1) : HasAllLinkEndTypes(linkEnds[k])
           /\ Len(scalingObjects) = batchI - 1
           /\ mutualApproximationPartials = EmptyMap
    /\ (mode = "batch" /\ pc \in {"corrections", "scaling", "dynamical",
                                  "double", "vector", "return"}) =>
           HasAllLinkEndTypes(mutualApproximationLinkEnds)

\* C4 witness: a batch call threw at its second link ends, after the first
\* were assembled.
C4_Witness ==
    /\ pc = "failed"
    /\ ThrownKind = RolesMessage
    /\ batchI = 2
    /\ Len(scalingObjects) = 1

LegCountKind == "light time corrections for"

\* C5 as stated: a single-link call with a number of correction groups other
\* than 2 (0 included) fails and returns nothing.
C5_Original ==
    (mode = "single" /\ pc # "corrections"
        /\ Len(lightTimeCorrections) # RequiredLegs) =>
        /\ pc = "failed"
        /\ returned = NoValue

\* C5 amended -- Leg-count validation: a single-link call with a number of
\* correction groups that is neither 0 nor 2 throws the leg-count error
\* before a scaling object or a block exists and returns nothing; with no
\* correction group at all (size 0) the check passes and the call goes on
\* without correction partial objects.
C5_LegCountValidation ==
    (mode = "single" /\ pc # "corrections") =>
        IF Len(lightTimeCorrections) \notin {0, RequiredLegs}
        THEN /\ pc = "failed"
             /\ thrown = LegCountMessage(SingleLinkErrorPrefix(observable),
                                         Len(lightTimeCorrections))
             /\ returned = NoValue
             /\ scalingObjects = <<>>
             /\ mutualApproximationPartials = EmptyMap
        ELSE /\ ThrownKind # LegCountKind
             /\ Len(lightTimeCorrections) = 0 =>
                    lightTimeCorrectionPartialObjects = <<>>
             /\ Len(lightTimeCorrections) = RequiredLegs =>
                    Len(lightTimeCorrectionPartialObjects) = RequiredLegs

\* C5 witness: a single-link call with one correction group has failed.
C5_Witness ==
    /\ mode = "single"
    /\ pc = "failed"
    /\ Len(lightTimeCorrections) = 1
    /\ ThrownKind = LegCountKind

Identifiable(parameter) ==
    parameter.type \in {InitialBodyState, ArcWiseInitialBodyState}

BatchLinks == {linkEnds[k] : k \in DOMAIN linkEnds}

\* the link ends of the batch whose correction map entry has not 2 groups
MalformedLinks ==
    {l \in BatchLinks :
        /\ l \in DOMAIN lightTimeCorrectionsMap
        /\ Len(lightTimeCorrectionsMap[l]) # RequiredLegs}

\* the batch arguments are valid but for the sizes of the correction entries
BatchOtherwiseValid ==
    /\ mode = "batch"
    /\ \A l \in BatchLinks : HasAllLinkEndTypes(l)
    /\ \A k \in DOMAIN parametersToEstimate.initialStates :
           Identifiable(parametersToEstimate.initialStates[k])

\* an entry the single-link leg-count check accepts
EntryAccepted(l) ==
    \/ l \notin DOMAIN lightTimeCorrectionsMap
    \/ Len(lightTimeCorrectionsMap[l]) \in {0, RequiredLegs}

\* C6 as stated: a batch of several valid link ends, exactly one of which has
\* a correction entry of a size other than 2, still completes.
C6_Original ==
    (/\ BatchOtherwiseValid
     /\ Cardinality(BatchLinks) >= 2
     /\ Cardinality(MalformedLinks) = 1) =>
        pc # "failed"

\* C6 amended -- No leniency in the batch: a correction entry of size 1 or
\* of size 3 and more makes the whole batch call fail.  The diagnostic is
\* written, the entry goes unchanged to the single-link function, whose
\* leg-count check throws; nothing is returned, for no link.  A batch call
\* completes only if every entry is absent or has size 0 or 2, and then the
\* returned map has an entry for every link.
C6_BatchNotLenient ==
    /\ (mode = "batch" /\ pc = "done") =>
           /\ \A l \in BatchLinks : EntryAccepted(l)
           /\ DOMAIN returned = BatchLinks
    /\ (mode = "batch" /\ ThrownKind = LegCountKind) =>
           /\ pc = "failed"
           /\ returned = NoValue
           /\ ~EntryAccepted(linkEnds[batchI])
           /\ thrown = LegCountMessage(SingleLinkErrorPrefix(observable),
                           Len(lightTimeCorrectionsMap[linkEnds[batchI]]))
           /\ cerr # <<>>
           /\ cerr[Len(cerr)] =
                  LegCountMessage(BatchErrorPrefix(observable),
                      Len(lightTimeCorrectionsMap[linkEnds[batchI]]))

\* C6 witness: a batch of two valid link ends failed at the second, whose
\* entry has one group, after the first was assembled.
C6_Witness ==
    /\ BatchOtherwiseValid
    /\ Cardinality(MalformedLinks) = 1
    /\ pc = "failed"
    /\ ThrownKind = LegCountKind
    /\ batchI = 2
    /\ DOMAIN batchPartials = {linkEnds[1]}
    /\ Len(lightTimeCorrections) = 1

InSingleLinkCall ==
    pc \in {"corrections", "scaling", "dynamical", "double", "vector", "return"}

\* C7 as stated: after the lookup found an entry with a group count other
\* than 2, the single-link function is called with empty correction groups.
C7_Original ==
    (/\ mode = "batch"
     /\ pc = "corrections"
     /\ mutualApproximationLinkEnds \in DOMAIN lightTimeCorrectionsMap
     /\ Len(lightTimeCorrectionsMap[mutualApproximationLinkEnds]) # RequiredLegs) =>
        lightTimeCorrections = <<>>

\* the diagnostics of the link ends 1..n of the batch, in order
RECURSIVE DiagnosticsUpTo(_)
DiagnosticsUpTo(n) ==
    IF n = 0 THEN <<>>
    ELSE LET l == linkEnds[n]
         IN  DiagnosticsUpTo(n - 1) \o
             (IF l \in DOMAIN lightTimeCorrectionsMap
                 /\ Len(lightTimeCorrectionsMap[l]) # RequiredLegs
              THEN <<LegCountMessage(BatchErrorPrefix(observable),
                                     Len(lightTimeCorrectionsMap[l]))>>
              ELSE <<>>)

\* C7 amended -- The entry is passed on: when the correction map entry of a
\* link has a group count other than 2, the batch function writes one
\* diagnostic and calls the single-link function with that very entry; the
\* link is assembled with empty corrections only if the entry is itself
\* empty.
C7_EntryPassedOn ==
    (mode = "batch" /\ InSingleLinkCall) =>
        /\ mutualApproximationLinkEnds = linkEnds[batchI]
        /\ lightTimeCorrections =
               IF linkEnds[batchI] \in DOMAIN lightTimeCorrectionsMap
               THEN lightTimeCorrectionsMap[linkEnds[batchI]]
               ELSE <<>>
        /\ cerr = DiagnosticsUpTo(batchI)

\* C7 witness: the single-link function is entered with the one-group entry
\* of the link, after the diagnostic.
C7_Witness ==
    /\ mode = "batch"
    /\ pc = "corrections"
    /\ Len(lightTimeCorrections) = 1
    /\ Len(cerr) = 1

\* C8 -- Lookup of an absent entry: for link ends without an entry in the
\* correction map the batch step throws nothing, writes nothing to cerr and
\* calls the single-link function with an empty correction list; no step of
\* the call changes the correction map; no leg-count error is ever raised
\* for such link ends.
C8_AbsentEntry ==
    /\ [][/\ lightTimeCorrectionsMap' = lightTimeCorrectionsMap
          /\ (/\ pc = "batch"
              /\ batchI <= Len(linkEnds)
              /\ HasAllLinkEndTypes(linkEnds[batchI])
              /\ linkEnds[batchI] \notin DOMAIN lightTimeCorrectionsMap) =>
                 /\ pc' = "corrections"
                 /\ mutualApproximationLinkEnds' = linkEnds[batchI]
                 /\ lightTimeCorrections' = <<>>
                 /\ cerr' = cerr
                 /\ thrown' = NoError]_vars
    /\ []((mode = "batch" /\ ThrownKind = LegCountKind) =>
              linkEnds[batchI] \in DOMAIN lightTimeCorrectionsMap)

\* C8 witness: the second link ends of a batch have no entry in a correction
\* map that is not empty, and the single-link function is entered for them.
C8_Witness ==
    /\ mode = "batch"
    /\ pc = "corrections"
    /\ batchI = 2
    /\ lightTimeCorrectionsMap # EmptyMap
    /\ mutualApproximationLinkEnds \notin DOMAIN lightTimeCorrectionsMap
    /\ lightTimeCorrections = <<>>
    /\ cerr = <<>>

\* C9 -- Batch role validation is fatal: a batch call whose collection holds
\* link ends without transmitter, transmitter2 or receiver never returns a
\* map, also not for the link ends before them that were already assembled;
\* it cannot get past the incomplete link ends, where it throws the
\* missing-role error.
C9_BatchRoleFatal ==
    (mode = "batch" /\ \E l \in BatchLinks : ~HasAllLinkEndTypes(l)) =>
        /\ pc # "done"
        /\ returned = NoValue
        /\ \A k \in 1..(batchI - 1) : k <= Len(linkEnds) =>
               HasAllLinkEndTypes(linkEnds[k])
        /\ (pc = "batch" /\ ~HasAllLinkEndTypes(linkEnds[batchI])) =>
               ENABLED (BatchLoop /\ pc' = "failed"
                           /\ thrown' = <<BatchErrorPrefix(observable), RolesMessage>>)
        /\ pc = "failed" => thrown # NoError

\* C9 witness: the batch threw the missing-role error with the result of an
\* earlier link ends already stored in the map that is never returned.
C9_Witness ==
    /\ mode = "batch"
    /\ pc = "failed"
    /\ thrown = <<BatchErrorPrefix(observable), RolesMessage>>
    /\ batchPartials # EmptyMap
    /\ returned = NoValue

\* the scenario of C11: the initial states of A and B and one scalar
\* parameter at index 20 that no link end depends on; transmitter = A,
\* transmitter2 = B, receiver = A; no light-time corrections
ThreeRoleScenario ==
    /\ mode = "single"
    /\ mutualApproximationLinkEnds = Link("A", "B", "A")
    /\ lightTimeCorrections = <<>>
    /\ parametersToEstimate.initialStates =
           <<InitialStateParameter(InitialBodyState, "A", 6),
             InitialStateParameter(InitialBodyState, "B", 6)>>
    /\ DOMAIN parametersToEstimate.doubles = {20}
    /\ parametersToEstimate.doubles[20].body \notin {"A", "B"}
    /\ parametersToEstimate.vectors = EmptyMap

\* C11 -- Three-role scenario: with the initial states of A and B and a
\* scalar P at index 20 without position coupling, link ends transmitter = A,
\* transmitter2 = B, receiver = A and no corrections, the returned block map
\* has exactly the keys (0,6) and (6,6); there is no key (20,1).
C11_ThreeRoleScenario ==
    (ThreeRoleScenario /\ pc \in {"return", "done"}) =>
        /\ DOMAIN mutualApproximationPartials = {<<0, 6>>, <<6, 6>>}
        /\ <<20, 1>> \notin DOMAIN mutualApproximationPartials
        /\ pc = "done" => DOMAIN returned.partials = {<<0, 6>>, <<6, 6>>}

\* C11 witness: the call of the scenario has returned, for the scalar
\* ppn_parameter_gamma.
C11_Witness ==
    /\ ThreeRoleScenario
    /\ parametersToEstimate.doubles[20] = PpnParameterGamma
    /\ pc = "done"
    /\ Cardinality(DOMAIN returned.partials) = 2

\* the single-link function is past the construction of its scaling object
PastScaling == pc \in {"dynamical", "double", "vector", "return"}

\* C12 -- Scaling variant selection: each single-link mutual-approximation
\* call that gets past its correction check constructs exactly one scaling
\* object (none before that, one per call in a batch); its class is
\* MutualApproximationScaling if the flag is true and
\* ModifiedMutualApproximationScaling if it is false, whatever the link
\* ends, the parameters and the corrections are.
C12_ScalingVariant ==
    observable = MutualApproximation =>
        /\ \A k \in DOMAIN scalingObjects :
               scalingObjects[k].class =
                   IF isCentralInstantUsedAsObservable
                   THEN "MutualApproximationScaling"
                   ELSE "ModifiedMutualApproximationScaling"
        /\ mode = "single" =>
               /\ pc \in {"corrections", "scaling"} => Len(scalingObjects) = 0
               /\ (PastScaling \/ pc = "done") =>
                      /\ Len(scalingObjects) = 1
                      /\ mutualApproximationScaling = 1
               /\ Len(scalingObjects) <= 1
        /\ mode = "batch" =>
               /\ pc \in {"batch", "corrections", "scaling"} =>
                      Len(scalingObjects) = batchI - 1
               /\ PastScaling =>
                      /\ Len(scalingObjects) = batchI
                      /\ mutualApproximationScaling = batchI
               /\ pc = "done" => Len(scalingObjects) = Len(linkEnds)

\* C12 witness: a call with the flag false, for link ends without receiver
\* and with parameters and corrections, has returned with its one scaling
\* object.
C12_Witness ==
    /\ observable = MutualApproximation
    /\ mode = "single"
    /\ pc = "done"
    /\ ~isCentralInstantUsedAsObservable
    /\ "receiver" \notin DOMAIN mutualApproximationLinkEnds
    /\ Len(lightTimeCorrections) = RequiredLegs
    /\ parametersToEstimate.initialStates # <<>>
    /\ scalingObjects[returned.scaling].class = "ModifiedMutualApproximationScaling"

\* the elements of a finite set of integers in ascending order
RECURSIVE Ascending(_)
Ascending(S) ==
    IF S = {} THEN <<>>
    ELSE LET least == CHOOSE x \in S : \A y \in S : x <= y
         IN  <<least>> \o Ascending(S \ {least})

\* the factory calls made in one of the loops, in the order they were made
CallsOf(loop) == SelectSeq(factoryCalls, LAMBDA call : call.loop = loop)

\* the single-link call is in or past its loop over the double parameters
InOrPastDoubleLoop ==
    \/ pc \in {"double", "vector", "return"}
    \/ pc = "done" /\ mode = "single"

\* the double parameters the loop has visited
VisitedDoubles ==
    {g \in DOMAIN parametersToEstimate.doubles :
        pc = "double" => (parameterIterator = End \/ g < parameterIterator)}

InOrPastVectorLoop ==
    \/ pc \in {"vector", "return"}
    \/ pc = "done" /\ mode = "single"

\* the vector parameters the loop has visited
VisitedVectors ==
    {g \in DOMAIN parametersToEstimate.vectors :
        pc = "vector" => (parameterIterator = End \/ g < parameterIterator)}

\* the template argument of createObservationPartialWrtLinkProperty< N > in
\* the three single-link functions (lines 241, 527, 807)
LinkPropertyTemplateArgument ==
    CASE observable = MutualApproximation -> 1
      [] observable = MutualApproximationWithImpactParameter -> 2
      [] observable = ImpactParameterMutualApprox -> 1

\* C14 -- Vector-parameter dispatch: for every vector parameter visited
\* exactly one factory call is made: of the link-property constructor, with
\* the size of the observable as its template argument, if the parameter is
\* a link property, and of the position-coupled factory otherwise.  A block
\* of the link-property constructor has no position partial, no correction
\* partial function and no scaling object, and whether it exists depends on
\* the link ends and the observable of the parameter only.
C14_VectorDispatch ==
    InOrPastVectorLoop =>
        /\ Len(CallsOf("vector")) = Cardinality(VisitedVectors)
        /\ \A g \in VisitedVectors :
               LET parameter == parametersToEstimate.vectors[g]
                   calls == SelectSeq(factoryCalls,
                                LAMBDA call : call.loop = "vector" /\ call.index = g)
               IN  /\ Len(calls) = 1
                   /\ IF isParameterObservationLinkProperty(parameter.type)
                      THEN /\ calls[1].factory = LinkPropertyFactory
                           /\ calls[1].dimension = LinkPropertyTemplateArgument
                           /\ <<g, parameter.size>> \in DOMAIN mutualApproximationPartials
                                  <=> /\ parameter.linkEnds = mutualApproximationLinkEnds
                                      /\ parameter.observableType = observable
                           /\ <<g, parameter.size>> \in DOMAIN mutualApproximationPartials
                                  => LET block == mutualApproximationPartials[<<g, parameter.size>>]
                                     IN  /\ block.positionPartials = {}
                                         /\ block.numberOfLightTimeCorrectionPartialsFunctions = 0
                                         /\ block.scaler = Nullptr
                      ELSE calls[1].factory = PositionCoupledFactory

\* C14 witness: with relativistic corrections on both legs, a link-property
\* parameter and a position-coupled parameter were visited and both got a
\* block.
C14_Witness ==
    /\ pc = "return"
    /\ lightTimeCorrections = RelativisticLegs
    /\ DOMAIN parametersToEstimate.vectors = {22, 24}
    /\ isParameterObservationLinkProperty(parametersToEstimate.vectors[22].type)
    /\ ~isParameterObservationLinkProperty(parametersToEstimate.vectors[24].type)
    /\ <<22, parametersToEstimate.vectors[22].size>> \in DOMAIN mutualApproximationPartials
    /\ <<24, 2>> \in DOMAIN mutualApproximationPartials
    /\ Len(CallsOf("vector")) = 2

\* C15 -- Vector-parameter block key: the vector parameters are visited in
\* ascending global index; a pass of the loop for the parameter with index g
\* and size s adds the key (g, s) if the factory returns a partial and adds
\* nothing otherwise; it leaves every other key, every other block and the
\* running index of the initial states alone.
C15_VectorKey ==
    /\ [][(pc = "vector" /\ parameterIterator # End) =>
             LET g == parameterIterator
                 parameter == parametersToEstimate.vectors[g]
                 yields == CallFactory(VectorParameterFactory(parameter),
                                       parameter) # NullPartial
             IN  /\ DOMAIN mutualApproximationPartials' =
                        DOMAIN mutualApproximationPartials
                            \cup (IF yields THEN {<<g, parameter.size>>} ELSE {})
                 /\ \A key \in DOMAIN mutualApproximationPartials :
                        key # <<g, parameter.size>> =>
                            mutualApproximationPartials'[key] =
                                mutualApproximationPartials[key]
                 /\ currentIndex' = currentIndex
                 /\ parameterIterator' = End \/ parameterIterator' > g]_vars
    /\ [](InOrPastVectorLoop =>
             [k \in DOMAIN CallsOf("vector") |-> CallsOf("vector")[k].index]
                 = Ascending(VisitedVectors))

\* C15 witness: behind two initial states (running index 12) the vector
\* parameters at 22 and 24, both of size 2, got the blocks (22,2) and (24,2).
C15_Witness ==
    /\ pc = "return"
    /\ currentIndex = 12
    /\ {key \in DOMAIN mutualApproximationPartials : key[1] >= 22}
           = {<<22, 2>>, <<24, 2>>}
    /\ parametersToEstimate.vectors[22].size = 2
    /\ parametersToEstimate.vectors[24].size = 2

\* the correction partial objects of a list of correction groups that passed
\* the leg-count check
PartialObjectsOf(corrections) ==
    IF Len(corrections) = RequiredLegs
    THEN <<createLightTimeCorrectionPartials(corrections[1]),
           createLightTimeCorrectionPartials(corrections[2])>>
    ELSE <<>>

\* the dependency outcome of the position-coupled factories: a link end is
\* bound to the body, or a correction has a partial function for the name
HasDependency(linkEndsMap, corrections, body, parameterName) ==
    \/ \E t \in DOMAIN linkEndsMap : linkEndsMap[t] = body
    \/ NumberOfLightTimeCorrectionPartialsFunctions(
           PartialObjectsOf(corrections), parameterName) > 0

\* the dependency outcome of the link-property constructor
LinkPropertyOutcome(linkEndsMap, parameter) ==
    /\ parameter.linkEnds = linkEndsMap
    /\ parameter.observableType = observable

\* The key set of one link, from the dependency outcomes alone; but for
\* these outcomes nothing in it depends on the observable.
ExpectedKeys(linkEndsMap, corrections) ==
    {<<StateSize * (k - 1), StateSize>> :
        k \in {n \in DOMAIN parametersToEstimate.initialStates :
                  LET body == parametersToEstimate.initialStates[n].body
                  IN  HasDependency(linkEndsMap, corrections, body,
                                    BodyStateName(body))}}
    \cup
    {<<g, 1>> :
        g \in {n \in DOMAIN parametersToEstimate.doubles :
                  LET p == parametersToEstimate.doubles[n]
                  IN  HasDependency(linkEndsMap, corrections, p.body,
                                    ParameterName(p))}}
    \cup
    {<<g, parametersToEstimate.vectors[g].size>> :
        g \in {n \in DOMAIN parametersToEstimate.vectors :
                  LET p == parametersToEstimate.vectors[n]
                  IN  IF isParameterObservationLinkProperty(p.type)
                      THEN LinkPropertyOutcome(linkEndsMap, p)
                      ELSE HasDependency(linkEndsMap, corrections, p.body,
                                         ParameterName(p))}}

\* an initial-state parameter that names no body
SomeParameterNotIdentifiable ==
    \E k \in DOMAIN parametersToEstimate.initialStates :
        ~Identifiable(parametersToEstimate.initialStates[k])

\* the inputs on which a single-link call raises an error
SingleLinkErrorInput ==
    \/ Len(lightTimeCorrections) \notin {0, RequiredLegs}
    \/ SomeParameterNotIdentifiable

\* the inputs on which a batch call raises an error
BatchErrorInput ==
    \E l \in BatchLinks :
        \/ ~HasAllLinkEndTypes(l)
        \/ ~EntryAccepted(l)
        \/ SomeParameterNotIdentifiable

\* C16 -- Lock-step of the variants: for each of the three observables, the
\* key set a single-link call returns is ExpectedKeys of its link ends and
\* correction groups, and a call fails exactly on SingleLinkErrorInput (a
\* batch call exactly on BatchErrorInput).  Neither depends on the
\* observable or on the flag other than through the dependency outcomes, so
\* the single-valued and the two-valued assemblies agree on both.
C16_LockStep ==
    /\ pc = "return" =>
           DOMAIN mutualApproximationPartials =
               ExpectedKeys(mutualApproximationLinkEnds, lightTimeCorrections)
    /\ (mode = "single" /\ pc = "done") =>
           /\ ~SingleLinkErrorInput
           /\ DOMAIN returned.partials =
                  ExpectedKeys(mutualApproximationLinkEnds, lightTimeCorrections)
    /\ (mode = "single" /\ pc = "failed") => SingleLinkErrorInput
    /\ (mode = "batch" /\ pc = "done") => ~BatchErrorInput
    /\ (mode = "batch" /\ pc = "failed") => BatchErrorInput

\* C16 witness: the two-valued assembly has returned blocks of an initial
\* state, of a double parameter that depends on the corrections only and of
\* a vector parameter.
C16_Witness ==
    /\ mode = "single"
    /\ pc = "done"
    /\ observable = MutualApproximationWithImpactParameter
    /\ <<0, 6>> \in DOMAIN returned.partials
    /\ \E g \in DOMAIN parametersToEstimate.doubles :
           /\ parametersToEstimate.doubles[g] = PpnParameterGamma
           /\ <<g, 1>> \in DOMAIN returned.partials
    /\ \E key \in DOMAIN returned.partials : key[1] >= 22

\* the scaling objects the results of one link of a batch reference: the one
\* stored with the block map and those of its blocks
ScalingObjectsOf(result) ==
    {result.scaling}
        \cup ({result.partials[key].scaler : key \in DOMAIN result.partials}
                 \ {Nullptr})

\* C17 -- Per-link scaling objects: in the map a batch call builds and
\* returns, the scaling objects stored for two distinct link ends are
\* distinct instances, and no scaling object is referenced from the results
\* (the stored pointer or a block) of more than one link ends.
C17_PerLinkScaling ==
    mode = "batch" =>
        /\ \A l1 \in DOMAIN batchPartials : \A l2 \in DOMAIN batchPartials :
               l1 # l2 =>
                   /\ batchPartials[l1].scaling # batchPartials[l2].scaling
                   /\ ScalingObjectsOf(batchPartials[l1])
                          \cap ScalingObjectsOf(batchPartials[l2]) = {}
        /\ pc = "done" => returned = batchPartials

\* C17 witness: a batch call has returned the results of two link ends, each
\* with a block that references the scaling object of its link ends.
C17_Witness ==
    /\ mode = "batch"
    /\ pc = "done"
    /\ Cardinality(DOMAIN returned) = 2
    /\ \A l \in DOMAIN returned :
           /\ returned[l].partials # EmptyMap
           /\ \A key \in DOMAIN returned[l].partials :
                  returned[l].partials[key].scaler = returned[l].scaling

\* the objects that the results of one link of a batch reference by pointer
\* to non-const: its scaling objects and, through them, the dependent
\* variables interface (the blocks themselves are made anew by every call)
ObjectsOf(result) ==
    {<<"scaling", id>> : id \in ScalingObjectsOf(result)}
        \cup {<<"interface", scalingObjects[id].dependentVariablesInterface>> :
                 id \in {n \in ScalingObjectsOf(result) :
                            scalingObjects[n].dependentVariablesInterface # Nullptr}}

OwnersOf(key) ==
    {<<"initialState", k>> : k \in {n \in DOMAIN parametersToEstimate.initialStates :
                                       key = <<StateSize * (n - 1), StateSize>>}}
    \cup {<<"double", g>> : g \in {n \in DOMAIN parametersToEstimate.doubles :
                                      key = <<n, 1>>}}
    \cup {<<"vector", g>> : g \in {n \in DOMAIN parametersToEstimate.vectors :
                                      key = <<n, parametersToEstimate.vectors[n].size>>}}

\* the partial the factory of the current call returns for a parameter
BlockOf(owner) ==
    CASE owner[1] = "initialState" ->
             createPartialWrtBodyPosition(
                 observable, mutualApproximationLinkEnds,
                 parametersToEstimate.initialStates[owner[2]].body,
                 mutualApproximationScaling, lightTimeCorrectionPartialObjects)
      [] owner[1] = "double" ->
             CallFactory(PositionCoupledFactory, parametersToEstimate.doubles[owner[2]])
      [] owner[1] = "vector" ->
             CallFactory(VectorParameterFactory(parametersToEstimate.vectors[owner[2]]),
                         parametersToEstimate.vectors[owner[2]])

\* C19 -- Key uniqueness and order-independence: no pass of the three loops
\* removes a key or replaces a block that is in the map, and a pass adds at
\* most one key; every key of the map comes from exactly one parameter, and
\* when the loops are done the map is, key by key, the partial of the
\* parameter the key comes from -- a value that does not depend on the
\* order in which the parameters were processed.
C19_KeysUnique ==
    /\ [][(pc \in {"dynamical", "double", "vector"}) =>
             /\ \A key \in DOMAIN mutualApproximationPartials :
                    /\ key \in DOMAIN mutualApproximationPartials'
                    /\ mutualApproximationPartials'[key] =
                           mutualApproximationPartials[key]
             /\ Cardinality(DOMAIN mutualApproximationPartials') <=
                    (Cardinality(DOMAIN mutualApproximationPartials) + 1)]_vars
    /\ [](\A key \in DOMAIN mutualApproximationPartials :
              Cardinality(OwnersOf(key)) = 1)
    /\ [](pc = "return" =>
              \A key \in DOMAIN mutualApproximationPartials :
                  \A owner \in OwnersOf(key) :
                      mutualApproximationPartials[key] = BlockOf(owner))

\* C19 witness: a call has returned six blocks, of two initial states, two
\* double and two vector parameters.
C19_Witness ==
    /\ mode = "single"
    /\ pc = "done"
    /\ Cardinality(DOMAIN returned.partials) = 6
    /\ Len(factoryCalls) = 6

\* the correction groups the batch function looks up for link ends
LookedUp(l) ==
    IF l \in DOMAIN lightTimeCorrectionsMap
    THEN lightTimeCorrectionsMap[l]
    ELSE <<>>

\* C20 -- Batch is the pointwise application of single-link assembly: the
\* map a batch call returns has an entry for exactly the link ends of the
\* input, and the key set of the entry of link ends l is the key set of the
\* single-link call for l with the correction groups looked up for l; every
\* return of a single-link call changes the entry of its own link ends only.
C20_BatchPointwise ==
    /\ []((mode = "batch" /\ pc = "done") =>
              /\ DOMAIN returned = BatchLinks
              /\ \A l \in BatchLinks :
                     DOMAIN returned[l].partials = ExpectedKeys(l, LookedUp(l)))
    /\ [][(mode = "batch" /\ pc = "return") =>
              /\ DOMAIN batchPartials' = DOMAIN batchPartials \cup {linkEnds[batchI]}
              /\ batchPartials'[linkEnds[batchI]].partials = mutualApproximationPartials
              /\ \A l \in DOMAIN batchPartials :
                     l # linkEnds[batchI] => batchPartials'[l] = batchPartials[l]]_vars

\* C20 witness: a batch call has returned for two link ends, the first with
\* two correction groups in the map and a block that exists because of
\* them, the second without entry and without block.
C20_Witness ==
    /\ mode = "batch"
    /\ pc = "done"
    /\ Len(linkEnds) = 2
    /\ linkEnds[1] # linkEnds[2]
    /\ DOMAIN lightTimeCorrectionsMap = {linkEnds[1]}
    /\ Len(lightTimeCorrectionsMap[linkEnds[1]]) = RequiredLegs
    /\ DOMAIN returned[linkEnds[1]].partials = {<<20, 1>>}
    /\ returned[linkEnds[2]].partials = EmptyMap

\* the keys of the blocks of the double and vector parameters
ScalarAndVectorKeys ==
    {<<g, 1>> : g \in DOMAIN parametersToEstimate.doubles}
        \cup {<<g, parametersToEstimate.vectors[g].size>> :
                 g \in DOMAIN parametersToEstimate.vectors}

\* the initial-state parameters the loop has visited (list positions from 1)
VisitedInitialStates ==
    {k \in DOMAIN parametersToEstimate.initialStates : pc = "dynamical" => k < i}

\* the body-position factory returns a partial for the k-th initial state
BodyPositionPartialExists(k) ==
    createPartialWrtBodyPosition(
        observable, mutualApproximationLinkEnds,
        parametersToEstimate.initialStates[k].body,
        mutualApproximationScaling, lightTimeCorrectionPartialObjects) # NullPartial

\* C21 -- Dynamical block placement: in and after the loop over the
\* initial-state parameters, the blocks of these parameters are exactly the
\* blocks (6 (k-1), 6) of the visited list positions k (from 1) for whose
\* body the body-position factory returns a partial; whether the parameters
\* before position k gave a block, and what the own size of the parameter
\* is, changes neither the start index nor the size.
C21_DynamicalPlacement ==
    pc \in {"dynamical", "double", "vector", "return"} =>
        DOMAIN mutualApproximationPartials \ ScalarAndVectorKeys =
            {<<StateSize * (k - 1), StateSize>> :
                k \in {n \in VisitedInitialStates : BodyPositionPartialExists(n)}}

\* C21 witness: the first initial state (of a body that is no link end) gave
\* no block, the second, an arc-wise state of size 12, gave the block (6,6).
C21_Witness ==
    /\ pc = "double"
    /\ Len(parametersToEstimate.initialStates) = 2
    /\ parametersToEstimate.initialStates[1].body = "C"
    /\ parametersToEstimate.initialStates[2].type = ArcWiseInitialBodyState
    /\ DOMAIN mutualApproximationPartials = {<<6, 6>>}

\* the double and the position-coupled vector parameters of the call, each
\* with the key its block would have
PositionCoupledParameters ==
    {[key |-> <<g, 1>>, parameter |-> parametersToEstimate.doubles[g]] :
        g \in DOMAIN parametersToEstimate.doubles}
    \cup
    {[key |-> <<g, parametersToEstimate.vectors[g].size>>,
      parameter |-> parametersToEstimate.vectors[g]] :
        g \in {n \in DOMAIN parametersToEstimate.vectors :
                  ~isParameterObservationLinkProperty(
                       parametersToEstimate.vectors[n].type)}}

\* the link end types whose body the parameter is a property of
PositionPartialSet(parameter) ==
    {t \in DOMAIN mutualApproximationLinkEnds :
        mutualApproximationLinkEnds[t] = parameter.body}

\* the number of partial functions the correction partial objects of the
\* call have for the parameter
CorrectionPartialFunctions(parameter) ==
    NumberOfLightTimeCorrectionPartialsFunctions(
        lightTimeCorrectionPartialObjects, ParameterName(parameter))

\* C22 -- Correction-only dependency: when the loops are done, a double or
\* position-coupled vector parameter has no block exactly when its set of
\* position partials is empty and the corrections have no partial function
\* for it; a parameter with an empty set of position partials but a partial
\* function of the corrections has a block, whose partial holds no position
\* partial and that number of partial functions.
C22_CorrectionOnly ==
    pc = "return" =>
        \A entry \in PositionCoupledParameters :
            /\ entry.key \notin DOMAIN mutualApproximationPartials
                   <=> /\ PositionPartialSet(entry.parameter) = {}
                       /\ CorrectionPartialFunctions(entry.parameter) = 0
            /\ entry.key \in DOMAIN mutualApproximationPartials =>
                   LET block == mutualApproximationPartials[entry.key]
                   IN  /\ block.positionPartials = PositionPartialSet(entry.parameter)
                       /\ block.numberOfLightTimeCorrectionPartialsFunctions =
                              CorrectionPartialFunctions(entry.parameter)

\* C22 witness: with a relativistic correction on both legs,
\* ppn_parameter_gamma at index 20 has a block without position partial and
\* with two partial functions, and the parameter at index 21 has neither and
\* no block.
C22_Witness ==
    /\ pc = "return"
    /\ DOMAIN parametersToEstimate.doubles = {20, 21}
    /\ parametersToEstimate.doubles[20] = PpnParameterGamma
    /\ <<20, 1>> \in DOMAIN mutualApproximationPartials
    /\ mutualApproximationPartials[<<20, 1>>].positionPartials = {}
    /\ mutualApproximationPartials[<<20, 1>>].numberOfLightTimeCorrectionPartialsFunctions = 2
    /\ <<21, 1>> \notin DOMAIN mutualApproximationPartials

\* C23 -- Ordering of the assembly steps: a scaling object is constructed
\* only by a step that finds the correction partial objects built from an
\* accepted list of correction groups, no factory called and no block yet;
\* the pointer to it is not assigned again while the single-link call runs;
\* a block or a factory call exists only while the call has its scaling
\* object; and when the leg-count error was raised, the call has no scaling
\* object, no block and no factory call.
C23_StepOrder ==
    /\ [][/\ Len(scalingObjects') # Len(scalingObjects) =>
                /\ Len(scalingObjects') = Len(scalingObjects) + 1
                /\ mutualApproximationScaling = Nullptr
                /\ mutualApproximationScaling' = Len(scalingObjects')
                /\ Len(lightTimeCorrections) \in {0, RequiredLegs}
                /\ lightTimeCorrectionPartialObjects =
                       PartialObjectsOf(lightTimeCorrections)
                /\ mutualApproximationPartials = EmptyMap
                /\ factoryCalls = <<>>
                /\ thrown = NoError
          /\ (mutualApproximationScaling # Nullptr /\ pc # "batch") =>
                mutualApproximationScaling' = mutualApproximationScaling]_vars
    /\ []((mutualApproximationPartials # EmptyMap \/ factoryCalls # <<>>) =>
              /\ mutualApproximationScaling # Nullptr
              /\ mutualApproximationScaling = Len(scalingObjects))
    /\ [](ThrownKind = LegCountKind =>
              /\ mutualApproximationScaling = Nullptr
              /\ mutualApproximationPartials = EmptyMap
              /\ factoryCalls = <<>>
              /\ mode = "single" => scalingObjects = <<>>
              /\ mode = "batch" => Len(scalingObjects) = batchI - 1)

\* C23 witness: a single-link call with two correction groups is in its
\* loops with the correction partial objects of both legs, its one scaling
\* object and a first block.
C23_Witness ==
    /\ mode = "single"
    /\ pc = "double"
    /\ Len(lightTimeCorrectionPartialObjects) = RequiredLegs
    /\ Len(scalingObjects) = 1
    /\ mutualApproximationScaling = 1
    /\ Cardinality(DOMAIN mutualApproximationPartials) = 1
    /\ Len(factoryCalls) = 2

\* the single-link call is past its check of the correction groups
PastCorrections ==
    pc \in {"scaling", "dynamical", "double", "vector", "return", "done"}

\* C24 -- Correction chain shape: a single-link call given two correction
\* groups passes the check and has exactly two lists of correction partial
\* objects, the k-th built from the k-th group; given one group it fails
\* with the leg-count error and has none; given no group it passes the
\* check with no list.  Past the check the call fails only on an
\* initial-state parameter it cannot identify.
C24_ChainShape ==
    (mode = "single" /\ pc # "corrections") =>
        /\ Len(lightTimeCorrections) = 2 =>
               /\ ThrownKind # LegCountKind
               /\ Len(lightTimeCorrectionPartialObjects) = 2
               /\ \A k \in 1..2 :
                      lightTimeCorrectionPartialObjects[k] =
                          createLightTimeCorrectionPartials(lightTimeCorrections[k])
        /\ Len(lightTimeCorrections) = 1 =>
               /\ pc = "failed"
               /\ ThrownKind = LegCountKind
               /\ lightTimeCorrectionPartialObjects = <<>>
        /\ Len(lightTimeCorrections) = 0 =>
               /\ ThrownKind # LegCountKind
               /\ lightTimeCorrectionPartialObjects = <<>>
        /\ Len(lightTimeCorrections) \in {0, 2} =>
               /\ PastCorrections \/ pc = "failed"
               /\ pc = "failed" => SomeParameterNotIdentifiable

\* C24 witness: a call given an empty first group and a relativistic
\* correction as second group has returned; its first list is empty and its
\* second list holds the partial object of that correction.
C24_Witness ==
    /\ mode = "single"
    /\ pc = "done"
    /\ lightTimeCorrections = <<<<>>, <<FirstOrderRelativistic>>>>
    /\ lightTimeCorrectionPartialObjects = <<<<>>, <<{PpnParameterGamma}>>>>
    /\ returned # NoValue

(***************************************************************************)
(* The other classes.  A call on one of their objects touches none of the  *)
(* variables of createMutualApproximationPartials.h.                       *)
(***************************************************************************)
mutualApproximationCall ==
    <<observable, isCentralInstantUsedAsObservable, linkEnds,
      parametersToEstimate, dependentVariablesInterface,
      lightTimeCorrectionsMap, batchI, batchPartials,
      mutualApproximationLinkEnds, lightTimeCorrections,
      lightTimeCorrectionPartialObjects, mutualApproximationScaling,
      mutualApproximationPartials, currentIndex, i, parameterIterator,
      scalingObjects, cerr, factoryCalls>>

NoMutualApproximationCall ==
    /\ observable = NoValue
    /\ isCentralInstantUsedAsObservable = FALSE
    /\ linkEnds = <<>>
    /\ parametersToEstimate = NoValue
    /\ dependentVariablesInterface = Nullptr
    /\ lightTimeCorrectionsMap = EmptyMap
    /\ batchI = 1
    /\ batchPartials = EmptyMap
    /\ mutualApproximationLinkEnds = EmptyMap
    /\ lightTimeCorrections = <<>>
    /\ lightTimeCorrectionPartialObjects = <<>>
    /\ mutualApproximationScaling = Nullptr
    /\ mutualApproximationPartials = EmptyMap
    /\ currentIndex = 0
    /\ i = 1
    /\ parameterIterator = End
    /\ scalingObjects = <<>>
    /\ cerr = <<>>
    /\ factoryCalls = <<>>

(***************************************************************************)
(* TabulatedAtmosphere::initialize (tabulatedAtmosphere.cpp).              *)
(*                                                                         *)
(* The vectors of the class are indexed from 0, as in the code.  The key   *)
(* set of the file map stands for the map; what the files hold is read     *)
(* when the code reads it.                                                 *)
(***************************************************************************)
\* longest list of dependent variables, and largest number of files
MaxDependentVariables == 3
\* largest number of independent variables, specified or found in a file
MaxIndependentVariables == 5

\* AtmosphereDependentVariables, by the index the code gives each
density_dependent_atmosphere == 0
pressure_dependent_atmosphere == 1
temperature_dependent_atmosphere == 2
gas_constant_dependent_atmosphere == 3
specific_heat_ratio_dependent_atmosphere == 4
AtmosphereDependentVariables ==
    {density_dependent_atmosphere, pressure_dependent_atmosphere,
     temperature_dependent_atmosphere, gas_constant_dependent_atmosphere,
     specific_heat_ratio_dependent_atmosphere}

\* the members as the constructor leaves them
DefaultDependentVariableIndices == [v \in AtmosphereDependentVariables |-> 0]
DefaultDependentVariablesDependency == [v \in AtmosphereDependentVariables |-> FALSE]
\* an interpolator that was not made, and a member that was not set yet
NoInterpolator == -1
NotSet == -1
NoInterpolators == [v \in AtmosphereDependentVariables |-> NoInterpolator]

\* std::vector::at and std::map::at outside the container
OutOfRange == "std::out_of_range"

DependentVariablesDifferFromFile ==
    "Error when creating tabulated atmosphere from file, number of specified dependent variables differs from file."
IndependentVariablesNotSupported(found) ==
    <<"Error when reading tabulated atmosphere from file, found ", found,
      " independent variables, up to 4 currently supported.">>
IndependentVariablesDifferFromFile ==
    "Error when creating tabulated atmosphere from file, number of specified independent variables differs from file."
DependentVariableNotFound(variable) ==
    <<"Error, dependent variable ", variable, " not found in tabulated atmosphere.">>
RequiredVariablesMessage ==
    "Error, tabulated atmosphere must be initialized with at least density, pressure and temperature."
FileIsEmpty == "The atmosphere table file is empty"
DependentVariablesDoNotMatchFile ==
    "Number of specified dependent variables does not match file."
OnlyThreeSupported == "Currently, only three independent variables are supported."
\* readTabulatedAtmosphere rejecting the files
FileReadingError == "readTabulatedAtmosphere"

atmosphereFrame == <<mutualApproximationCall, mode, torquePartial, simsFlanagan>>

\* lines 26-66: store the file map, then the consistency of the input
CheckInputConsistency ==
    /\ mode = "initialize"
    /\ pc = "consistency"
    /\ LET stored == [tabulatedAtmosphere EXCEPT
                          !.atmosphereTableFile_ = frame.atmosphereTableFile]
           numberOfDependentVariables == Len(stored.dependentVariables_)
       IN  IF Len(stored.independentVariables_) # 1
           THEN IF Cardinality(stored.atmosphereTableFile_) # numberOfDependentVariables
                THEN /\ tabulatedAtmosphere' = stored
                     /\ Throw(DependentVariablesDifferFromFile)
                ELSE IF 0 \notin stored.atmosphereTableFile_
                THEN /\ tabulatedAtmosphere' = stored
                     /\ Throw(OutOfRange)
                ELSE \E found \in 0..MaxIndependentVariables :
                        /\ tabulatedAtmosphere' =
                               [stored EXCEPT !.numberOfIndependentVariables_ = found]
                        /\ IF (found < 1) \/ (found > 4)
                           THEN Throw(IndependentVariablesNotSupported(found))
                           ELSE IF Len(stored.independentVariables_) # found
                           THEN Throw(IndependentVariablesDifferFromFile)
                           ELSE /\ pc' = "order"
                                /\ UNCHANGED <<thrown, returned>>
           ELSE /\ tabulatedAtmosphere' =
                       [stored EXCEPT !.numberOfIndependentVariables_ = 1]
                /\ pc' = "order"
                /\ UNCHANGED <<thrown, returned>>
    /\ frame' = [frame EXCEPT !.i = 0]
    /\ UNCHANGED atmosphereFrame

\* lines 69-82: one pass of the loop over the dependent variables
GetOrderOfDependentVariables ==
    /\ mode = "initialize"
    /\ pc = "order"
    /\ LET atmosphere == tabulatedAtmosphere
           numberOfDependentVariables == Len(atmosphere.dependentVariables_)
       IN  IF frame.i < numberOfDependentVariables
           THEN LET variable == atmosphere.dependentVariables_[frame.i + 1]
                IN  IF frame.i <= Cardinality(DOMAIN atmosphere.dependentVariableIndices_)
                    THEN IF variable \in DOMAIN atmosphere.dependentVariableIndices_
                         THEN /\ tabulatedAtmosphere' =
                                     [atmosphere EXCEPT
                                          !.dependentVariableIndices_[variable] = frame.i,
                                          !.dependentVariablesDependency_[variable] = TRUE]
                              /\ frame' = [frame EXCEPT !.i = frame.i + 1]
                              /\ UNCHANGED <<pc, thrown, returned>>
                         ELSE /\ Throw(OutOfRange)
                              /\ UNCHANGED <<tabulatedAtmosphere, frame>>
                    ELSE /\ Throw(DependentVariableNotFound(variable))
                         /\ UNCHANGED <<tabulatedAtmosphere, frame>>
           ELSE /\ pc' = "required"
                /\ UNCHANGED <<tabulatedAtmosphere, frame, thrown, returned>>
    /\ UNCHANGED atmosphereFrame

\* line 85-86: the condition under which the check of the required variables throws
RequiredVariablesMissing(dependency) ==
    ~ (\/ dependency[density_dependent_atmosphere]
       \/ dependency[pressure_dependent_atmosphere]
       \/ dependency[temperature_dependent_atmosphere])

\* lines 84-90
CheckRequiredVariables ==
    /\ mode = "initialize"
    /\ pc = "required"
    /\ IF RequiredVariablesMissing(tabulatedAtmosphere.dependentVariablesDependency_)
       THEN Throw(RequiredVariablesMessage)
       ELSE /\ pc' = "interpolators"
            /\ UNCHANGED <<thrown, returned>>
    /\ UNCHANGED <<tabulatedAtmosphere, frame, atmosphereFrame>>

\* lines 138-155: each interpolator is made of one of the numberOfDependentVariables
\* columns of data; the optional two take column 3 and column 4 themselves
OneDimensionalColumns(atmosphere) ==
    [v \in AtmosphereDependentVariables |->
        IF v \in {density_dependent_atmosphere, pressure_dependent_atmosphere,
                  temperature_dependent_atmosphere}
        THEN atmosphere.dependentVariableIndices_[v]
        ELSE IF atmosphere.dependentVariablesDependency_[v] THEN v ELSE NoInterpolator]

\* lines 193-213: every interpolator takes the table its index names
MultiDimensionalColumns(atmosphere) ==
    [v \in AtmosphereDependentVariables |->
        IF \/ v \in {density_dependent_atmosphere, pressure_dependent_atmosphere,
                     temperature_dependent_atmosphere}
           \/ atmosphere.dependentVariablesDependency_[v]
        THEN atmosphere.dependentVariableIndices_[v]
        ELSE NoInterpolator]

ColumnsInRange(columns, size) ==
    \A v \in DOMAIN columns : columns[v] # NoInterpolator => columns[v] < size

Initialized(columns) ==
    /\ tabulatedAtmosphere' = [tabulatedAtmosphere EXCEPT !.interpolationFor = columns]
    /\ pc' = "initialized"
    /\ UNCHANGED <<thrown, returned>>

\* lines 95-173 and 177-214: the switch on the number of independent variables
CreateInterpolators ==
    /\ mode = "initialize"
    /\ pc = "interpolators"
    /\ LET atmosphere == tabulatedAtmosphere
           numberOfDependentVariables == Len(atmosphere.dependentVariables_)
           failed(message) == Throw(message) /\ UNCHANGED tabulatedAtmosphere
       IN  CASE atmosphere.numberOfIndependentVariables_ = 1 ->
                  IF 0 \notin atmosphere.atmosphereTableFile_
                  THEN failed(OutOfRange)
                  ELSE \E numberOfColumnsInFile \in 0..(MaxDependentVariables + 1),
                          numberOfRowsInFile \in 0..1 :
                          IF numberOfRowsInFile < 1 \/ numberOfColumnsInFile < 1
                          THEN failed(FileIsEmpty)
                          ELSE IF numberOfDependentVariables # numberOfColumnsInFile - 1
                          THEN failed(DependentVariablesDoNotMatchFile)
                          ELSE IF ~ ColumnsInRange(OneDimensionalColumns(atmosphere),
                                                   numberOfDependentVariables)
                          THEN failed(OutOfRange)
                          ELSE Initialized(OneDimensionalColumns(atmosphere))
             [] atmosphere.numberOfIndependentVariables_ \in {2, 3} ->
                  \/ failed(FileReadingError)
                  \/ IF ~ ColumnsInRange(MultiDimensionalColumns(atmosphere),
                                         Cardinality(atmosphere.atmosphereTableFile_))
                     THEN failed(OutOfRange)
                     ELSE Initialized(MultiDimensionalColumns(atmosphere))
             [] atmosphere.numberOfIndependentVariables_ = 4 ->
                  failed(OnlyThreeSupported)
             [] OTHER ->
                  Initialized(atmosphere.interpolationFor)
    /\ UNCHANGED <<frame, atmosphereFrame>>

\* a constructed atmosphere on which initialize is called with a map of files
InitAtmosphere ==
    /\ mode = "initialize"
    /\ pc = "consistency"
    /\ \E dependent \in SeqsUpTo(AtmosphereDependentVariables, MaxDependentVariables),
          independent \in 0..MaxIndependentVariables,
          files \in 0..MaxDependentVariables :
          /\ tabulatedAtmosphere =
                 [independentVariables_ |-> [k \in 1..independent |-> k - 1],
                  dependentVariables_ |-> dependent,
                  atmosphereTableFile_ |-> {},
                  numberOfIndependentVariables_ |-> NotSet,
                  dependentVariableIndices_ |-> DefaultDependentVariableIndices,
                  dependentVariablesDependency_ |-> DefaultDependentVariablesDependency,
                  interpolationFor |-> NoInterpolators]
          /\ frame = [atmosphereTableFile |-> 0..(files - 1), i |-> 0]
    /\ torquePartial = NoValue
    /\ simsFlanagan = NoValue
    /\ thrown = NoError
    /\ returned = NoValue
    /\ NoMutualApproximationCall

NextAtmosphere ==
    \/ CheckInputConsistency
    \/ GetOrderOfDependentVariables
    \/ CheckRequiredVariables
    \/ CreateInterpolators

SpecAtmosphere == InitAtmosphere /\ [][NextAtmosphere]_vars

(***************************************************************************)
(* Properties of TabulatedAtmosphere::initialize.                          *)
(***************************************************************************)
RequestedDependentVariables ==
    {tabulatedAtmosphere.dependentVariables_[k] :
        k \in DOMAIN tabulatedAtmosphere.dependentVariables_}

DensityPressureTemperature ==
    {density_dependent_atmosphere, pressure_dependent_atmosphere,
     temperature_dependent_atmosphere}

\* C25: whenever any one of density, pressure and temperature is missing from the
\* requested dependent variables, initialize fails with the error "tabulated
\* atmosphere must be initialized with at least density, pressure and
\* temperature": no call gets past that check with one of the three missing.
C25_Original ==
    (mode = "initialize" /\ pc \in {"interpolators", "initialized"})
        => DensityPressureTemperature \subseteq RequestedDependentVariables

\* the call that shows it: only density is requested of a one-dimensional table,
\* initialize returns, and the interpolators for pressure and temperature are made
\* of the density column
C25_Witness ==
    /\ mode = "initialize"
    /\ pc = "initialized"
    /\ tabulatedAtmosphere.dependentVariables_ = <<density_dependent_atmosphere>>
    /\ Len(tabulatedAtmosphere.independentVariables_) = 1
    /\ thrown = NoError
    /\ tabulatedAtmosphere.interpolationFor[pressure_dependent_atmosphere]
           = tabulatedAtmosphere.dependentVariableIndices_[density_dependent_atmosphere]
    /\ tabulatedAtmosphere.interpolationFor[temperature_dependent_atmosphere]
           = tabulatedAtmosphere.dependentVariableIndices_[density_dependent_atmosphere]

\* a failure that has nothing to do with the number of independent variables
FailuresOfOtherChecks ==
    {OutOfRange, DependentVariablesDifferFromFile, RequiredVariablesMessage,
     FileIsEmpty, DependentVariablesDoNotMatchFile, FileReadingError}

FoundInFile == tabulatedAtmosphere.numberOfIndependentVariables_

\* C26: initialize accepts a table with up to 4 independent variables: a call whose
\* file holds 1..4 independent variables, as many as were specified, fails only for
\* a reason other than that number, and a call whose file holds fewer than 1 or
\* more than 4 fails.
C26_Original ==
    (mode = "initialize" /\ Len(tabulatedAtmosphere.independentVariables_) # 1
        /\ FoundInFile # NotSet)
        => /\ (FoundInFile \in 1..4
                  /\ FoundInFile = Len(tabulatedAtmosphere.independentVariables_)
                  /\ pc = "failed")
                  => thrown \in FailuresOfOtherChecks
           /\ (FoundInFile < 1 \/ FoundInFile > 4)
                  => (pc = "failed"
                      /\ thrown = IndependentVariablesNotSupported(FoundInFile))

\* the call that shows it: four independent variables specified and found, all of
\* density, pressure and temperature requested with a file each
C26_Witness ==
    /\ mode = "initialize"
    /\ pc = "failed"
    /\ thrown = OnlyThreeSupported
    /\ FoundInFile = 4
    /\ Len(tabulatedAtmosphere.independentVariables_) = 4
    /\ tabulatedAtmosphere.dependentVariables_ =
           <<density_dependent_atmosphere, pressure_dependent_atmosphere,
             temperature_dependent_atmosphere>>
    /\ Cardinality(tabulatedAtmosphere.atmosphereTableFile_) = 3

(***************************************************************************)
(* SphericalHarmonicGravitationalTorquePartial: the two functions that say *)
(* whether the torque depends on an integrated state                       *)
(* (sphericalHarmonicGravitationalTorquePartial.h).                        *)
(***************************************************************************)
\* propagators::IntegratedStateType
hybrid == "hybrid"
translational_state == "translational_state"
rotational_state == "rotational_state"
body_mass_state == "body_mass_state"
custom_state == "custom_state"
IntegratedStateType ==
    {hybrid, translational_state, rotational_state, body_mass_state, custom_state}

TorqueBodies == {"A", "B", "C"}
\* stateReferencePoint.second
ReferencePoints == {"", "station"}

NonRotationalState == "isStateDerivativeDependentOnIntegratedNonRotationalState"
AdditionalStateTypes == "isStateDerivativeDependentOnIntegratedAdditionalStateTypes"

BodyMassNotImplemented ==
    "Warning, dependency of 2nd degree gravity torques on body masses not yet implemented"

torqueFrame ==
    <<mutualApproximationCall, mode, tabulatedAtmosphere, simsFlanagan,
      torquePartial, frame>>

Return(value) ==
    /\ returned' = value
    /\ pc' = "done"
    /\ UNCHANGED thrown

\* lines 59-64
isStateDerivativeDependentOnIntegratedNonRotationalState ==
    /\ mode = NonRotationalState
    /\ pc = "call"
    /\ Return(FALSE)
    /\ UNCHANGED torqueFrame

ReferenceBodyIsBodyUndergoingTorque(stateReferencePoint, partial) ==
    stateReferencePoint[1] = partial.bodyUndergoingTorque_

\* lines 105 and 110: the condition on the body of the reference point
ReferenceBodyIsTorqueBody(stateReferencePoint, partial) ==
    \/ stateReferencePoint[1] = partial.bodyUndergoingTorque_
    \/ stateReferencePoint[1] = partial.bodyExertingTorque_

\* lines 100-116
isStateDerivativeDependentOnIntegratedAdditionalStateTypes ==
    /\ mode = AdditionalStateTypes
    /\ pc = "call"
    /\ IF /\ ReferenceBodyIsTorqueBody(frame.stateReferencePoint, torquePartial)
          /\ frame.integratedStateType = translational_state
       THEN Return(TRUE)
       ELSE IF /\ ReferenceBodyIsTorqueBody(frame.stateReferencePoint, torquePartial)
               /\ frame.integratedStateType = body_mass_state
       THEN Throw(BodyMassNotImplemented)
       ELSE Return(FALSE)
    /\ UNCHANGED torqueFrame

\* a torque partial of any two bodies, asked about any reference point and state type
InitTorque ==
    /\ mode \in {NonRotationalState, AdditionalStateTypes}
    /\ pc = "call"
    /\ \E acceleratedBody \in TorqueBodies, acceleratingBody \in TorqueBodies :
          torquePartial = [bodyUndergoingTorque_ |-> acceleratedBody,
                           bodyExertingTorque_ |-> acceleratingBody]
    /\ \E first \in TorqueBodies, second \in ReferencePoints,
          type \in IntegratedStateType :
          frame = [stateReferencePoint |-> <<first, second>>,
                   integratedStateType |-> type]
    /\ tabulatedAtmosphere = NoValue
    /\ simsFlanagan = NoValue
    /\ thrown = NoError
    /\ returned = NoValue
    /\ NoMutualApproximationCall

NextTorque ==
    \/ isStateDerivativeDependentOnIntegratedNonRotationalState
    \/ isStateDerivativeDependentOnIntegratedAdditionalStateTypes

SpecTorque == InitTorque /\ [][NextTorque]_vars

ReferenceBody == frame.stateReferencePoint[1]

TorqueBodiesOfPartial ==
    {torquePartial.bodyUndergoingTorque_, torquePartial.bodyExertingTorque_}

Covered(key) == key[1]..(key[1] + key[2] - 1)

\* where the k-th initial-state parameter starts in the global parameter vector:
\* behind the initial-state parameters before it, each of its own size
RECURSIVE GlobalStart(_)
GlobalStart(k) ==
    IF k = 1 THEN 0
    ELSE GlobalStart(k - 1) + parametersToEstimate.initialStates[k - 1].size

GlobalRange(k) == <<GlobalStart(k), parametersToEstimate.initialStates[k].size>>

PairwiseDisjoint(keys) ==
    \A a \in keys, b \in keys : a # b => Covered(a) \cap Covered(b) = {}

\* C28 -- Non-overlapping index ranges: when the single-link function returns, and
\* the scalar and vector parameters carry pairwise disjoint ranges, no two blocks of
\* the mapping cover overlapping ranges, and the block of every initial-state
\* parameter that has one covers the range the parameter occupies in the global
\* parameter vector, arc-wise parameters of a size other than 6 included.
C28_Original ==
    (pc = "return" /\ PairwiseDisjoint(ScalarAndVectorKeys))
        => /\ PairwiseDisjoint(DOMAIN mutualApproximationPartials)
           /\ \A k \in DOMAIN parametersToEstimate.initialStates :
                 BodyPositionPartialExists(k)
                     => GlobalRange(k) \in DOMAIN mutualApproximationPartials

\* the call that shows it: the state of C, which is no link end, and then an
\* arc-wise state of A of size 12; the one block is (6,6), the range of A is (6,12)
C28_Witness ==
    /\ pc = "return"
    /\ Len(parametersToEstimate.initialStates) = 2
    /\ parametersToEstimate.initialStates[1] =
           InitialStateParameter(InitialBodyState, "C", 6)
    /\ parametersToEstimate.initialStates[2] =
           InitialStateParameter(ArcWiseInitialBodyState, "A", 12)
    /\ BodyPositionPartialExists(2)
    /\ GlobalRange(2) = <<6, 12>>
    /\ <<6, 6>> \in DOMAIN mutualApproximationPartials
    /\ <<6, 12>> \notin DOMAIN mutualApproximationPartials

\* the positions at which a link occurs in the batch argument
OccurrencesOf(link) == {k \in DOMAIN linkEnds : linkEnds[k] = link}

LastOccurrenceOf(link) ==
    CHOOSE k \in OccurrencesOf(link) : \A n \in OccurrencesOf(link) : n <= k

\* C29 -- Duplicate links in a batch: when the batch call returns, the single-link
\* assembly has run once per element of the argument (the k-th run made the k-th
\* scaling object), the returned mapping has exactly one entry per distinct link,
\* and the entry of a link holds the scaling object and the blocks of the last
\* occurrence of the link; no entry refers to the scaling object of an earlier
\* occurrence.
C29_DuplicateLinks ==
    (mode = "batch" /\ pc = "done")
        => /\ Len(scalingObjects) = Len(linkEnds)
           /\ DOMAIN returned = {linkEnds[k] : k \in DOMAIN linkEnds}
           /\ \A link \in DOMAIN returned :
                 /\ returned[link].scaling = LastOccurrenceOf(link)
                 /\ ScalingObjectsOf(returned[link]) = {LastOccurrenceOf(link)}

\* C29 witness: a batch of the same link twice has returned one entry, with blocks,
\* that holds the second scaling object
C29_Witness ==
    /\ mode = "batch"
    /\ pc = "done"
    /\ Len(linkEnds) = 2
    /\ linkEnds[1] = linkEnds[2]
    /\ Len(scalingObjects) = 2
    /\ DOMAIN returned = {linkEnds[1]}
    /\ returned[linkEnds[1]].partials # EmptyMap
    /\ returned[linkEnds[1]].scaling = 2

(***************************************************************************)
(* SimsFlanagan::SimsFlanagan (simsFlanagan.h): the split of the segments  *)
(* into a forward and a backward propagation.  numberSegments is an int of *)
(* 32 bits.                                                                *)
(***************************************************************************)
\* largest number of segments tried, on either side of 0 and below INT_MAX
MaxSegments == 20
INT_MAX == 2147483647
INT_MIN == -INT_MAX - 1

FlooredDivision(a, b) == a \div b

\* lines 73-74: the operator / of two ints rounds towards zero (b > 0)
TruncatedDivision(a, b) ==
    IF a >= 0 \/ a % b = 0 THEN a \div b ELSE (a \div b) + 1

\* line 73: numberSegments_ + 1 is not an int
SignedOverflow(n) == n = INT_MAX

\* line 73: ( numberSegments_ + 1 ) / 2; what a build makes of the overflow is
\* the wrapped sum or the sum in a wider register (a trap ends the constructor)
ForwardSegments(n) ==
    IF SignedOverflow(n)
    THEN {TruncatedDivision(INT_MIN, 2), TruncatedDivision(n - 1, 2) + 1}
    ELSE {TruncatedDivision(n + 1, 2)}

\* line 74
BackwardSegments(n) == TruncatedDivision(n, 2)

Crash == "signal"

simsFlanaganFrame ==
    <<mutualApproximationCall, mode, tabulatedAtmosphere, torquePartial, frame>>

\* lines 66-81: the body of the constructor
SimsFlanaganConstructor ==
    /\ mode = "SimsFlanagan"
    /\ pc = "body"
    /\ \/ \* line 70 with bodyToPropagate in the body map
          /\ frame.bodyToPropagate \in frame.bodyMap
          /\ \/ \E forward \in ForwardSegments(simsFlanagan.numberSegments_) :
                   /\ simsFlanagan' =
                          [simsFlanagan EXCEPT
                               !.initialSpacecraftMass_ = "mass",
                               !.numberSegmentsForwardPropagation_ = forward,
                               !.numberSegmentsBackwardPropagation_ =
                                   BackwardSegments(simsFlanagan.numberSegments_)]
                   /\ pc' = "done"
                   /\ UNCHANGED <<thrown, returned>>
             \/ /\ SignedOverflow(simsFlanagan.numberSegments_)
                /\ simsFlanagan' =
                       [simsFlanagan EXCEPT !.initialSpacecraftMass_ = "mass"]
                /\ Throw(Crash)
       \/ \* line 70 through the null pointer that operator[] has put into the map
          /\ frame.bodyToPropagate \notin frame.bodyMap
          /\ Throw(Crash)
          /\ UNCHANGED simsFlanagan
    /\ UNCHANGED simsFlanaganFrame

SegmentChoices ==
    (-MaxSegments..MaxSegments) \cup {INT_MAX - k : k \in 0..MaxSegments}

\* the object after the member initialisers of lines 53-65
InitSimsFlanagan ==
    /\ mode = "SimsFlanagan"
    /\ pc = "body"
    /\ \E numberSegments \in SegmentChoices :
          simsFlanagan = [numberSegments_ |-> numberSegments,
                          initialSpacecraftMass_ |-> "indeterminate",
                          numberSegmentsForwardPropagation_ |-> 0,
                          numberSegmentsBackwardPropagation_ |-> 0]
    /\ \E bodyMap \in {{"Vehicle", "Sun"}, {"Sun"}} :
          frame = [bodyMap |-> bodyMap, bodyToPropagate |-> "Vehicle"]
    /\ tabulatedAtmosphere = NoValue
    /\ torquePartial = NoValue
    /\ thrown = NoError
    /\ returned = NoValue
    /\ NoMutualApproximationCall

NextSimsFlanagan == SimsFlanaganConstructor

SpecSimsFlanagan == InitSimsFlanagan /\ [][NextSimsFlanagan]_vars

Constructed == mode = "SimsFlanagan" /\ pc = "done"

ForwardPlusBackward ==
    simsFlanagan.numberSegmentsForwardPropagation_
        + simsFlanagan.numberSegmentsBackwardPropagation_

ForwardMinusBackward ==
    simsFlanagan.numberSegmentsForwardPropagation_
        - simsFlanagan.numberSegmentsBackwardPropagation_

\* the halves of a non-negative n in the integers: n / 2 rounded down, and the rest,
\* which is (n + 1) / 2 rounded down
HalvesOf(n) ==
    /\ simsFlanagan.numberSegmentsBackwardPropagation_ = n \div 2
    /\ simsFlanagan.numberSegmentsForwardPropagation_ = n - (n \div 2)
    /\ ForwardPlusBackward = n
    /\ ForwardMinusBackward \in {0, 1}

\* C30 as stated -- Sims-Flanagan segment split: for every non-negative
\* numberSegments n the constructor sets forward = (n+1)/2 and backward = n/2, so
\* that forward + backward = n and forward - backward is 0 or 1; for negative n
\* the sum is not n.
C30_Original ==
    Constructed
        => /\ simsFlanagan.numberSegments_ >= 0 => HalvesOf(simsFlanagan.numberSegments_)
           /\ simsFlanagan.numberSegments_ < 0
                  => ForwardPlusBackward # simsFlanagan.numberSegments_

\* C30 -- Sims-Flanagan segment split: for every numberSegments n with
\* 0 <= n < INT_MAX the constructor sets forward = (n+1)/2 and backward = n/2, so
\* that forward + backward = n and forward - backward is 0 or 1; for negative n
\* the division rounds towards zero and the sum is n + 1, not n; at n = INT_MAX
\* backward is still n/2, forward is what the overflow of n + 1 leaves.
C30_SegmentSplit ==
    Constructed
        => /\ (simsFlanagan.numberSegments_ >= 0
                  /\ simsFlanagan.numberSegments_ < INT_MAX)
                  => HalvesOf(simsFlanagan.numberSegments_)
           /\ simsFlanagan.numberSegments_ < 0
                  => /\ ForwardPlusBackward = simsFlanagan.numberSegments_ + 1
                     /\ ForwardMinusBackward \in {0, 1}
           /\ simsFlanagan.numberSegments_ = INT_MAX
                  => simsFlanagan.numberSegmentsBackwardPropagation_
                         = INT_MAX \div 2

\* C30 witness: five segments are split into three forward and two backward
C30_Witness ==
    /\ Constructed
    /\ simsFlanagan.numberSegments_ = 5
    /\ simsFlanagan.numberSegmentsForwardPropagation_ = 3
    /\ simsFlanagan.numberSegmentsBackwardPropagation_ = 2
==========================================================================
